---- MODULE Spec2Model ----
(***************************************************************************)
(* Model of labextension/src/render.ts (initMolstar and the helpers it     *)
(* closes over) of refua-notebook.                                         *)
(*                                                                         *)
(* A JavaScript string is a sequence of one-character strings, so that     *)
(* trim, toLowerCase, startsWith, slice, atob and decodeURIComponent are   *)
(* computed and not assumed.  A DOM attribute or dataset entry is a record *)
(* [present, s]: getAttribute returns null when the attribute is missing.  *)
(***************************************************************************)
EXTENDS Integers, Sequences, FiniteSets, TLC

(***************************************************************************)
(* Strings                                                                 *)
(***************************************************************************)
Min(a, b) == IF a < b THEN a ELSE b

NoAttr == [present |-> FALSE, s |-> << >>]

Val(str) == [present |-> TRUE, s |-> str]

\* String.prototype.startsWith
StartsWith(str, prefix) ==
    /\ Len(prefix) <= Len(str)
    /\ SubSeq(str, 1, Len(prefix)) = prefix

\* String.prototype.slice(from, to) for 0 <= from, 0-based, end exclusive
Slice(str, from, to) == SubSeq(str, from + 1, Min(to, Len(str)))

\* String.prototype.indexOf for a single character: 0-based, -1 when absent
IndexOf(str, ch) ==
    IF \E i \in 1..Len(str) : str[i] = ch
    THEN (CHOOSE i \in 1..Len(str) :
            /\ str[i] = ch
            /\ \A j \in 1..(i - 1) : str[j] # ch) - 1
    ELSE -1

\* String.prototype.includes
Includes(str, part) ==
    \E i \in 0..(Len(str) - Len(part)) : SubSeq(str, i + 1, i + Len(part)) = part

\* the characters the regular expression class \s matches (ASCII part)
IsSpace(ch) == ch \in {" ", "\t", "\n", "\r", "\f"}

\* the number of whitespace characters str starts with
LeadingSpaces(str) ==
    IF \A i \in 1..Len(str) : IsSpace(str[i]) THEN Len(str)
    ELSE (CHOOSE i \in 1..Len(str) :
            /\ ~IsSpace(str[i])
            /\ \A j \in 1..(i - 1) : IsSpace(str[j])) - 1

\* the number of whitespace characters str ends with
TrailingSpaces(str) ==
    IF \A i \in 1..Len(str) : IsSpace(str[i]) THEN Len(str)
    ELSE Len(str) - (CHOOSE i \in 1..Len(str) :
                       /\ ~IsSpace(str[i])
                       /\ \A j \in (i + 1)..Len(str) : IsSpace(str[j]))

\* str.replace(/^\s+/, '')
TrimStart(str) == SubSeq(str, LeadingSpaces(str) + 1, Len(str))

TrimEnd(str) == SubSeq(str, 1, Len(str) - TrailingSpaces(str))

\* String.prototype.trim
Trim(str) == TrimEnd(TrimStart(str))

\* str.replace(/\s+/g, '')
StripSpace(str) == SelectSeq(str, LAMBDA ch : ~IsSpace(ch))

UpperLetters ==
    <<"A", "B", "C", "D", "E", "F", "G", "H", "I", "J", "K", "L", "M",
      "N", "O", "P", "Q", "R", "S", "T", "U", "V", "W", "X", "Y", "Z">>

LowerLetters ==
    <<"a", "b", "c", "d", "e", "f", "g", "h", "i", "j", "k", "l", "m",
      "n", "o", "p", "q", "r", "s", "t", "u", "v", "w", "x", "y", "z">>

LowerChar(ch) ==
    IF \E i \in 1..26 : UpperLetters[i] = ch
    THEN LowerLetters[CHOOSE i \in 1..26 : UpperLetters[i] = ch]
    ELSE ch

\* String.prototype.toLowerCase
ToLowerCase(str) == [i \in 1..Len(str) |-> LowerChar(str[i])]

\* '='.repeat(n)
Repeat(ch, n) == [i \in 1..n |-> ch]

(***************************************************************************)
(* Character codes: String.fromCharCode for the codes 0..255.  Printable   *)
(* ASCII is the table below (the grave accent, code 96, is written out by  *)
(* name); every other code is one opaque character that is neither         *)
(* whitespace nor a sentinel character.                                    *)
(***************************************************************************)
Printable ==
    <<" ", "!", "\"", "#", "$", "%", "&", "'", "(", ")", "*", "+", ",", "-",
      ".", "/", "0", "1", "2", "3", "4", "5", "6", "7", "8", "9", ":", ";",
      "<", "=", ">", "?", "@", "A", "B", "C", "D", "E", "F", "G", "H", "I",
      "J", "K", "L", "M", "N", "O", "P", "Q", "R", "S", "T", "U", "V", "W",
      "X", "Y", "Z", "[", "\\", "]", "^", "_", "<grave>", "a", "b", "c", "d", "e",
      "f", "g", "h", "i", "j", "k", "l", "m", "n", "o", "p", "q", "r", "s",
      "t", "u", "v", "w", "x", "y", "z", "{", "|", "}", "~">>

OpaqueChar == "<byte>"

FromCharCode(code) ==
    IF code \in 32..126 THEN Printable[code - 31]
    ELSE IF code = 9 THEN "\t"
    ELSE IF code = 10 THEN "\n"
    ELSE IF code = 12 THEN "\f"
    ELSE IF code = 13 THEN "\r"
    ELSE OpaqueChar

Base64Alphabet ==
    <<"A", "B", "C", "D", "E", "F", "G", "H", "I", "J", "K", "L", "M", "N",
      "O", "P", "Q", "R", "S", "T", "U", "V", "W", "X", "Y", "Z", "a", "b",
      "c", "d", "e", "f", "g", "h", "i", "j", "k", "l", "m", "n", "o", "p",
      "q", "r", "s", "t", "u", "v", "w", "x", "y", "z", "0", "1", "2", "3",
      "4", "5", "6", "7", "8", "9", "+", "/">>

IsBase64Char(ch) == \E i \in 1..64 : Base64Alphabet[i] = ch

Base64Value(ch) == (CHOOSE i \in 1..64 : Base64Alphabet[i] = ch) - 1

HexDigits ==
    <<"0", "1", "2", "3", "4", "5", "6", "7", "8", "9", "a", "b", "c", "d", "e", "f">>

IsHexDigit(ch) == \E i \in 1..16 : HexDigits[i] = LowerChar(ch)

HexValue(ch) == (CHOOSE i \in 1..16 : HexDigits[i] = LowerChar(ch)) - 1

\* the result of an operation that may throw
Threw == [ok |-> FALSE, s |-> << >>]

Returned(str) == [ok |-> TRUE, s |-> str]

\* decoding of a sequence of alphabet characters, four characters to three
\* bytes; a tail of two characters gives one byte and of three gives two
Base64Bytes(str) ==
    LET n == Len(str)
        tail == IF n % 4 = 2 THEN 1 ELSE IF n % 4 = 3 THEN 2 ELSE 0
        ByteAt(k) ==
            LET quad == 4 * ((k - 1) \div 3)
                a == Base64Value(str[quad + 1])
                b == Base64Value(str[quad + 2])
            IN  IF (k - 1) % 3 = 0 THEN a * 4 + (b \div 16)
                ELSE LET c == Base64Value(str[quad + 3])
                     IN  IF (k - 1) % 3 = 1 THEN (b % 16) * 16 + (c \div 4)
                         ELSE (c % 4) * 64 + Base64Value(str[quad + 4])
    IN  [k \in 1..(3 * (n \div 4) + tail) |-> FromCharCode(ByteAt(k))]

\* compact less one or two trailing '=' when its length is a multiple of 4
Unpadded(compact) ==
    LET n == Len(compact)
    IN  IF n % 4 = 0 /\ n >= 2 /\ compact[n] = "=" /\ compact[n - 1] = "="
        THEN SubSeq(compact, 1, n - 2)
        ELSE IF n % 4 = 0 /\ n >= 1 /\ compact[n] = "="
        THEN SubSeq(compact, 1, n - 1)
        ELSE compact

\* a length of 1 modulo 4 or a character outside the alphabet throws
DecodeUnpadded(unpadded) ==
    IF Len(unpadded) % 4 = 1 THEN Threw
    ELSE IF \E i \in 1..Len(unpadded) : ~IsBase64Char(unpadded[i]) THEN Threw
    ELSE Returned(Base64Bytes(unpadded))

\* window.atob (forgiving-base64 decode): ASCII whitespace is removed, one or
\* two trailing '=' are removed when the length is a multiple of 4, and what
\* is left is decoded
Atob(str) == DecodeUnpadded(Unpadded(StripSpace(str)))

\* the code of the escape that starts at the i-th character of str
EscapeCode(str, i) == HexValue(str[i + 1]) * 16 + HexValue(str[i + 2])

\* the i-th character of str is a '%' that starts no well-formed escape of a
\* single-byte character
MalformedAt(str, i) ==
    /\ str[i] = "%"
    /\ \/ i + 2 > Len(str)
       \/ ~IsHexDigit(str[i + 1])
       \/ ~IsHexDigit(str[i + 2])
       \/ EscapeCode(str, i) >= 128

\* the characters of a well-formed str, each with what it decodes to; the two
\* digits of an escape are not kept
DecodedUnits(str) ==
    [i \in 1..Len(str) |->
        IF str[i] = "%" THEN [keep |-> TRUE, ch |-> FromCharCode(EscapeCode(str, i))]
        ELSE [keep |-> ~(\/ i > 1 /\ str[i - 1] = "%"
                         \/ i > 2 /\ str[i - 2] = "%"),
              ch |-> str[i]]]

CharsOf(units) == [k \in 1..Len(units) |-> units[k].ch]

\* decodeURIComponent: '%' must be followed by two hexadecimal digits; the
\* escapes of single-byte (ASCII) characters are decoded, an escape of a byte
\* of 0x80 or more that does not start a well-formed UTF-8 sequence throws
\* (multi-byte sequences are outside the model's alphabet and throw as well).
\* A hexadecimal digit is never '%', so every '%' of a well-formed string
\* starts an escape.
PercentDecode(str) ==
    IF \E i \in 1..Len(str) : MalformedAt(str, i) THEN Threw
    ELSE Returned(CharsOf(SelectSeq(DecodedUnits(str), LAMBDA u : u.keep)))

(***************************************************************************)
(* looksLikeTextCifDataUrl                                                 *)
(***************************************************************************)
Base64ChunkLen == 4096

SampleLen == 512

DataScheme == <<"d", "a", "t", "a", ":">>

Base64Marker == <<";", "b", "a", "s", "e", "6", "4">>

SentinelData == <<"d", "a", "t", "a", "_">>

SentinelLoop == <<"l", "o", "o", "p", "_">>

SentinelItem == <<"_">>

\* a chunk cut off before its padding, as atob would reject it
PaddedUnrepaired(chunk) == chunk

\* chunk + '='.repeat((4 - (chunk.length % 4)) % 4)
Padded(chunk) == chunk \o Repeat("=", (4 - (Len(chunk) % 4)) % 4)

\* atob(padded).slice(0, 512)
Base64Sample(payload) ==
    LET bytes == Atob(Padded(Slice(StripSpace(payload), 0, Base64ChunkLen)))
    IN  IF bytes.ok THEN Returned(Slice(bytes.s, 0, SampleLen)) ELSE Threw

\* the sample of the try block, or the throw of atob or decodeURIComponent
Sample(meta, payload) ==
    IF Includes(meta, Base64Marker) THEN Base64Sample(payload)
    ELSE PercentDecode(Slice(payload, 0, SampleLen))

\* the rest of the try block on trimmed = sample.replace(/^\s+/, '')
StartsWithSentinel(trimmed) ==
    IF trimmed = << >> THEN FALSE
    ELSE \/ StartsWith(trimmed, SentinelData)
         \/ StartsWith(trimmed, SentinelLoop)
         \/ StartsWith(trimmed, SentinelItem)

\* the try block and its catch, which returns false
SniffSample(decoded) ==
    IF ~decoded.ok THEN FALSE ELSE StartsWithSentinel(TrimStart(decoded.s))

\* from the test of commaIndex on
SniffFrom(candidateUrl, commaIndex) ==
    IF commaIndex < 0 THEN FALSE
    ELSE SniffSample(Sample(ToLowerCase(Slice(candidateUrl, 5, commaIndex)),
                            Slice(candidateUrl, commaIndex + 1, Len(candidateUrl))))

looksLikeTextCifDataUrl(candidateUrl) ==
    IF ~StartsWith(candidateUrl, DataScheme) THEN FALSE
    ELSE SniffFrom(candidateUrl, IndexOf(candidateUrl, ","))

(***************************************************************************)
(* Chain groups and chain selectors                                        *)
(*                                                                         *)
(* A value of unknown shape handed to normalizeChainGroups or to           *)
(* makeChainSelector is a record [isArray, items]: what is not an array    *)
(* (null, a string, a number, an object) has no items.  A raw token is a   *)
(* record [present, s]: a string, or null/undefined, which `?? ''` turns   *)
(* into the empty string.                                                  *)
(***************************************************************************)
NotArray == [isArray |-> FALSE, items |-> << >>]

Array(items) == [isArray |-> TRUE, items |-> items]

\* String(rawToken ?? '').trim()
TokenOf(rawToken) == Trim(IF rawToken.present THEN rawToken.s ELSE << >>)

RECURSIVE NormalizeTokens(_, _, _)

\* the body of the inner loop of normalizeChainGroups for one token, and the
\* loop over the raw tokens that follow
NormalizeToken(token, rest, seen, chainIds) ==
    IF token = << >> \/ token \in seen
    THEN NormalizeTokens(rest, seen, chainIds)
    ELSE NormalizeTokens(rest, seen \cup {token}, Append(chainIds, token))

\* the inner loop of normalizeChainGroups over the raw tokens not yet visited
NormalizeTokens(rawTokens, seen, chainIds) ==
    IF rawTokens = << >> THEN [seen |-> seen, chainIds |-> chainIds]
    ELSE NormalizeToken(TokenOf(Head(rawTokens)), Tail(rawTokens), seen, chainIds)

RECURSIVE NormalizeGroupsResetsSeen(_, _, _)
NormalizeGroupsResetsSeen(rawItems, seen, groups) ==
    IF rawItems = << >> THEN groups
    ELSE LET rawGroup == Head(rawItems)
         IN  IF ~rawGroup.isArray
             THEN NormalizeGroupsResetsSeen(Tail(rawItems), seen, groups)
             ELSE LET r == NormalizeTokens(rawGroup.items, {}, << >>)
                  IN  NormalizeGroupsResetsSeen(Tail(rawItems), r.seen,
                                                IF Len(r.chainIds) > 0
                                                THEN Append(groups, r.chainIds)
                                                ELSE groups)

RECURSIVE NormalizeGroups(_, _, _)
\* the outer loop of normalizeChainGroups over the raw groups not yet visited
NormalizeGroups(rawItems, seen, groups) ==
    IF rawItems = << >> THEN groups
    ELSE LET rawGroup == Head(rawItems)
         IN  IF ~rawGroup.isArray
             THEN NormalizeGroups(Tail(rawItems), seen, groups)
             ELSE LET r == NormalizeTokens(rawGroup.items, seen, << >>)
                  IN  NormalizeGroups(Tail(rawItems), r.seen,
                                      IF Len(r.chainIds) > 0
                                      THEN Append(groups, r.chainIds)
                                      ELSE groups)

normalizeChainGroups(raw) ==
    IF ~raw.isArray THEN << >> ELSE NormalizeGroups(raw.items, {}, << >>)

SelectorNull == [kind |-> "null", alternatives |-> << >>]

RECURSIVE SelectorsOfNoSeen(_, _, _)

SelectTokenNoSeen(token, rest, seen, selectors) ==
    IF token = << >>
    THEN SelectorsOfNoSeen(rest, seen, selectors)
    ELSE SelectorsOfNoSeen(rest, seen,
             selectors \o <<[scheme |-> "label_asym_id", token |-> token],
                            [scheme |-> "auth_asym_id", token |-> token]>>)

SelectorsOfNoSeen(rawTokens, seen, selectors) ==
    IF rawTokens = << >> THEN selectors
    ELSE SelectTokenNoSeen(TokenOf(Head(rawTokens)), Tail(rawTokens), seen, selectors)

RECURSIVE SelectorsOf(_, _, _)

SelectTokenLabelOnly(token, rest, seen, selectors) ==
    IF token = << >>
    THEN SelectorsOf(rest, seen, selectors)
    ELSE SelectorsOf(rest, seen \cup {<<"label", token>>},
                     IF <<"label", token>> \notin seen
                     THEN Append(selectors, [scheme |-> "label_asym_id", token |-> token])
                     ELSE selectors)

\* the body of the loop of makeChainSelector for one token, and the loop over
\* the raw tokens that follow
SelectToken(token, rest, seen, selectors) ==
    LET labelKey == <<"label", token>>
        authKey == <<"auth", token>>
        withLabel ==
            IF labelKey \notin seen
            THEN Append(selectors, [scheme |-> "label_asym_id", token |-> token])
            ELSE selectors
        seenLabel == seen \cup {labelKey}
        withAuth ==
            IF authKey \notin seenLabel
            THEN Append(withLabel, [scheme |-> "auth_asym_id", token |-> token])
            ELSE withLabel
    IN  IF token = << >>
        THEN SelectorsOf(rest, seen, selectors)
        ELSE SelectorsOf(rest, seenLabel \cup {authKey}, withAuth)

\* the loop of makeChainSelector over the raw tokens not yet visited
SelectorsOf(rawTokens, seen, selectors) ==
    IF rawTokens = << >> THEN selectors
    ELSE SelectToken(TokenOf(Head(rawTokens)), Tail(rawTokens), seen, selectors)

makeChainSelector(chainIds) ==
    IF ~chainIds.isArray \/ Len(chainIds.items) = 0 THEN SelectorNull
    ELSE LET selectors == SelectorsOf(chainIds.items, {}, << >>)
         IN  IF Len(selectors) = 0 THEN SelectorNull
             ELSE IF Len(selectors) = 1
             THEN [kind |-> "single", alternatives |-> selectors]
             ELSE [kind |-> "list", alternatives |-> selectors]
(***************************************************************************)
(* The colour plan                                                         *)
(*                                                                         *)
(* The text of data-color-plan is given by what JSON.parse makes of it: a  *)
(* text is a record [empty, parses, value], and JSON.parse throws on a     *)
(* text that does not parse.  A JSON value is a record [type, truthy,      *)
(* fields]; fields maps the keys an object has, among the five fields of a *)
(* colour plan, to raw lists of groups, and is empty for every other       *)
(* value.  A raw token may also be an object whose own property toString   *)
(* is not a function, as JSON.parse('{"toString":1}') returns: String() of *)
(* it throws a TypeError.                                                  *)
(***************************************************************************)
Unconvertible == [present |-> TRUE, s |-> << >>, convertible |-> FALSE]

\* String(rawToken ?? '') throws for some token of some group of the list;
\* every token of every group that is an array is converted
NormalizeThrowsUnguarded(raw) ==
    \/ ~raw.isArray
    \/ \E i \in 1..Len(raw.items) :
           \/ ~raw.items[i].isArray
           \/ \E j \in 1..Len(raw.items[i].items) : raw.items[i].items[j] = Unconvertible

NormalizeThrows(raw) ==
    /\ raw.isArray
    /\ \E i \in 1..Len(raw.items) :
           /\ raw.items[i].isArray
           /\ \E j \in 1..Len(raw.items[i].items) : raw.items[i].items[j] = Unconvertible

ProteinField == "protein_chain_groups"

NucleicField == "nucleic_chain_groups"

LigandField == "ligand_chain_groups"

IonField == "ion_chain_groups"

OtherField == "other_chain_groups"

PlanFields == {ProteinField, NucleicField, LigandField, IonField, OtherField}

NoFields == [key \in {} |-> NotArray]

JsonValue(type, truthy, fields) == [type |-> type, truthy |-> truthy, fields |-> fields]

JsonNull == JsonValue("null", FALSE, NoFields)

JsonObject(fields) == JsonValue("object", TRUE, fields)

\* the typeof operator, on a value JSON.parse returns
TypeOf(value) == IF value.type \in {"null", "array", "object"} THEN "object" ELSE value.type

EmptyText == [empty |-> TRUE, parses |-> FALSE, value |-> JsonNull]

MalformedText == [empty |-> FALSE, parses |-> FALSE, value |-> JsonNull]

TextOf(value) == [empty |-> FALSE, parses |-> TRUE, value |-> value]

NoPlanAttr == [present |-> FALSE, text |-> EmptyText]

PlanAttr(text) == [present |-> TRUE, text |-> text]

JsonParse(text) ==
    IF text.parses THEN [ok |-> TRUE, value |-> text.value] ELSE [ok |-> FALSE, value |-> JsonNull]

\* let colorPlan = {}
EmptyPlan == JsonObject(NoFields)

\* the colorPlan of initMolstar: the parsed attribute when that is an object
\* (or an array), and {} otherwise
ParseColorPlan(attr) ==
    LET colorPlanRaw == IF attr.present THEN attr.text ELSE EmptyText
    IN  IF colorPlanRaw.empty THEN EmptyPlan
        ELSE LET parsed == JsonParse(colorPlanRaw)
             IN  IF ~parsed.ok THEN EmptyPlan
                 ELSE IF parsed.value.truthy /\ TypeOf(parsed.value) = "object"
                 THEN parsed.value
                 ELSE EmptyPlan

\* colorPlan?.key
Get(colorPlan, key) ==
    IF key \in DOMAIN colorPlan.fields THEN colorPlan.fields[key] ELSE NotArray

(***************************************************************************)
(* The scene: the components applyColorPlan has the builder issue, in the  *)
(* order of the calls of structure.component.  A component is a record     *)
(* [selector, type, color, opacity, label]; the selector of a built-in     *)
(* role is the role's name.                                                *)
(***************************************************************************)
proteinPalette ==
    <<"#2563eb", "#0891b2", "#7c3aed", "#0f766e", "#059669", "#f59e0b", "#dc2626", "#9333ea">>

ligandPalette == <<"#db2777", "#c026d3", "#e11d48", "#be185d", "#ec4899">>

NucleicColor == "#f59e0b"

IonColor == "#14b8a6"

BranchedColor == "#84cc16"

OtherColor == "#64748b"

NoOpacity == [given |-> FALSE, value |-> 0]

Opacity(value) == [given |-> TRUE, value |-> value]

BuiltinSelector(role) == [kind |-> role, alternatives |-> << >>]

Component(selector, type, color, opacity) ==
    [selector |-> selector, type |-> type, color |-> color, opacity |-> opacity,
     label |-> NoAttr]

\* component.label({ text })
Label(structure, component, text) == [structure EXCEPT ![component].label = Val(text)]

\* a normalized group, as the argument of makeChainSelector
ChainIds(group) == Array([j \in 1..Len(group) |-> Val(group[j])])

\* returns the structure with the component added and the place of the
\* component in it, 0 for null
addChainRepresentation(structure, chainIds, type, color, opacity) ==
    LET selector == makeChainSelector(chainIds)
    IN  IF selector.kind = "null"
        THEN [structure |-> structure, component |-> 0]
        ELSE [structure |-> Append(structure, Component(selector, type, color, Opacity(opacity))),
              component |-> Len(structure) + 1]

ProteinColorClamped(idx) == proteinPalette[Min(idx, Len(proteinPalette) - 1) + 1]

\* proteinPalette[idx % proteinPalette.length]
ProteinColor(idx) == proteinPalette[(idx % Len(proteinPalette)) + 1]

LigandColorCyclesTwo(idx) == ligandPalette[(idx % 2) + 1]

\* ligandPalette[idx % ligandPalette.length]
LigandColor(idx) == ligandPalette[(idx % Len(ligandPalette)) + 1]

RECURSIVE ForEachProteinGroup(_, _, _)
\* proteinGroups.forEach, from the group of index idx on
ForEachProteinGroup(structure, groups, idx) ==
    IF idx >= Len(groups) THEN structure
    ELSE ForEachProteinGroup(
             addChainRepresentation(structure, ChainIds(groups[idx + 1]), "cartoon",
                                    ProteinColor(idx), 1).structure,
             groups, idx + 1)

RECURSIVE ForEachGroup(_, _, _, _, _)
\* the forEach of a role of one colour, from the group of index idx on
ForEachGroup(structure, groups, idx, type, color) ==
    IF idx >= Len(groups) THEN structure
    ELSE ForEachGroup(
             addChainRepresentation(structure, ChainIds(groups[idx + 1]), type, color, 1).structure,
             groups, idx + 1, type, color)

LabelsEveryLigandGroup(ligandName, idx, ligandComp) == ligandName # << >> /\ ligandComp # 0

\* ligandName && idx === 0 && ligandComp
LabelsLigandGroup(ligandName, idx, ligandComp) ==
    ligandName # << >> /\ idx = 0 /\ ligandComp # 0

RECURSIVE ForEachLigandGroup(_, _, _, _)
\* ligandGroups.forEach, from the group of index idx on
ForEachLigandGroup(structure, groups, idx, ligandName) ==
    IF idx >= Len(groups) THEN structure
    ELSE LET added == addChainRepresentation(structure, ChainIds(groups[idx + 1]),
                                             "ball_and_stick", LigandColor(idx), 1)
             ligandComp == added.component
         IN  ForEachLigandGroup(
                 IF LabelsLigandGroup(ligandName, idx, ligandComp)
                 THEN Label(added.structure, ligandComp, ligandName)
                 ELSE added.structure,
                 groups, idx + 1, ligandName)

\* structure.component({ selector: role }).representation({ type }).color({ color })
BuiltinComponent(structure, role, type, color) ==
    Append(structure, Component(BuiltinSelector(role), type, color, NoOpacity))

ProteinComponentsKeepsBuiltin(structure, proteinGroups) ==
    ForEachProteinGroup(BuiltinComponent(structure, "protein", "cartoon", "#2563eb"),
                        proteinGroups, 0)

ProteinComponents(structure, proteinGroups) ==
    IF Len(proteinGroups) > 0
    THEN ForEachProteinGroup(structure, proteinGroups, 0)
    ELSE BuiltinComponent(structure, "protein", "cartoon", "#2563eb")

NucleicComponents(structure, nucleicGroups) ==
    IF Len(nucleicGroups) > 0
    THEN ForEachGroup(structure, nucleicGroups, 0, "cartoon", NucleicColor)
    ELSE BuiltinComponent(structure, "nucleic", "cartoon", NucleicColor)

LigandComponents(structure, ligandGroups, ligandName) ==
    IF Len(ligandGroups) > 0
    THEN ForEachLigandGroup(structure, ligandGroups, 0, ligandName)
    ELSE LET withComp == BuiltinComponent(structure, "ligand", "ball_and_stick", "#db2777")
         IN  IF ligandName # << >>
             THEN Label(withComp, Len(withComp), ligandName)
             ELSE withComp

IonComponents(structure, ionGroups) ==
    IF Len(ionGroups) > 0
    THEN ForEachGroup(structure, ionGroups, 0, "ball_and_stick", IonColor)
    ELSE BuiltinComponent(structure, "ion", "ball_and_stick", IonColor)

BranchedComponent(structure) ==
    BuiltinComponent(structure, "branched", "ball_and_stick", BranchedColor)

OtherComponents(structure, otherGroups) ==
    ForEachGroup(structure, otherGroups, 0, "ball_and_stick", OtherColor)

\* the five normalizations come first: when one throws no component has been
\* issued; the calls of the builder, which is not this program's, are not
\* taken to throw here
applyColorPlan(colorPlan, ligandName) ==
    IF \E key \in PlanFields : NormalizeThrows(Get(colorPlan, key))
    THEN [threw |-> TRUE, structure |-> << >>]
    ELSE LET proteinGroups == normalizeChainGroups(Get(colorPlan, ProteinField))
             nucleicGroups == normalizeChainGroups(Get(colorPlan, NucleicField))
             ligandGroups == normalizeChainGroups(Get(colorPlan, LigandField))
             ionGroups == normalizeChainGroups(Get(colorPlan, IonField))
             otherGroups == normalizeChainGroups(Get(colorPlan, OtherField))
             withProtein == ProteinComponents(<< >>, proteinGroups)
             withNucleic == NucleicComponents(withProtein, nucleicGroups)
             withLigand == LigandComponents(withNucleic, ligandGroups, ligandName)
             withIon == IonComponents(withLigand, ionGroups)
             withBranched == BranchedComponent(withIon)
         IN  [threw |-> FALSE, structure |-> OtherComponents(withBranched, otherGroups)]

(***************************************************************************)
(* The container of one structure viewer                                   *)
(*                                                                         *)
(* cfg is what initMolstar reads from the host's markup and from the       *)
(* molstar module and never writes.  The dataset entries refuaRendering    *)
(* and refuaRendered only ever hold 'true' or are deleted: a boolean each. *)
(* tasks lists the continuations in flight (a requested animation frame, a *)
(* pending Viewer.create, loadMVS or loadStructureFromUrl promise), one    *)
(* record per initialization, in no particular order; a record also logs   *)
(* the calls that initialization has made.  hostCall tells how the host's   *)
(* latest call ended ("skipped" by the guard, "noData", or "started") and   *)
(* flips at every call, so that a call that changes nothing is a step.     *)
(* last is the record of the initialization that ended most recently, and  *)
(* is empty from the start of the next one on.                             *)
(* The attempt number is a parameter of the                                *)
(* initializeViewer call: a record keeps it, and the count of the frames   *)
(* requested, while a frame is pending, while Viewer.create is pending and *)
(* after a timeout, and not after that.                                    *)
(***************************************************************************)
VARIABLES cfg, isConnected, hostCall, tasks, last,
          refuaRendering, refuaRendered, refuaLoadedFormat, refuaLoadedPath,
          loadingText, loadingDisplay

containerVars ==
    <<refuaRendering, refuaRendered, refuaLoadedFormat, refuaLoadedPath,
      loadingText, loadingDisplay>>

viewerVars == <<cfg, isConnected, hostCall, tasks, last, containerVars>>

\* initializeViewer gives up at this attempt
MaxAttempts == 20

FormatMmcif == <<"m", "m", "c", "i", "f">>

FormatBcif == <<"b", "c", "i", "f">>

FormatPdb == <<"p", "d", "b">>

UrlNetwork == <<"h", "t", "t", "p", ":", "/", "/", "h", "/", "s", ",", "_">>

UrlInlineText == <<"d", "a", "t", "a", ":", ",", "d", "a", "t", "a", "_", "x">>

UrlInlineBinary == <<"d", "a", "t", "a", ":", ",", "H", "E", "A", "D", "E", "R">>

UrlInlineBase64Text ==
    <<"d", "a", "t", "a", ":", ";", "b", "a", "s", "e", "6", "4", ",",
      "Z", "G", "F", "0", "Y", "V", "9", "4">>

UrlInlineLeadingSpace == <<" ">> \o UrlInlineText

UrlInlineUpperScheme == <<"D", "A", "T", "A", ":", ",", "_", "a">>

UrlInlineNoComma == <<"d", "a", "t", "a", ":", "_", "a">>

UrlInlineLoop ==
    <<"d", "a", "t", "a", ":", "t", "e", "x", "t", "/", "p", "l", "a", "i", "n", ",",
      "%", "2", "0", "l", "o", "o", "p", "_">>

UrlInlineBadEscape == <<"d", "a", "t", "a", ":", ",", "d", "a", "t", "a", "_", "%", "z">>

UrlInlineBase64Binary ==
    <<"d", "a", "t", "a", ":", ";", "B", "A", "S", "E", "6", "4", ",", "S", "E", "V", "B">>

\* the data-url values a container is given
ContainerUrls == {NoAttr, Val(UrlNetwork), Val(UrlInlineBase64Text)}

\* the data-format values a container is given
ContainerFormats == {NoAttr, Val(<<"B", "C", "I", "F">>)}

Configs ==
    [url : ContainerUrls, format : ContainerFormats,
     ligand : {NoAttr}, colorPlan : {NoPlanAttr},
     hasViewerEl : BOOLEAN, hasLoadingEl : BOOLEAN, mvsAvailable : BOOLEAN]

\* the structure sources the format of a load is computed for
FormatUrls ==
    {Val(UrlNetwork), Val(UrlInlineText), Val(UrlInlineBinary), Val(UrlInlineBase64Text),
     Val(UrlInlineLeadingSpace), Val(UrlInlineUpperScheme), Val(UrlInlineNoComma),
     Val(UrlInlineLoop), Val(UrlInlineBadEscape), Val(UrlInlineBase64Binary)}

FormatFormats ==
    {NoAttr, Val(<< >>), Val(FormatBcif), Val(<<"B", "c", "i", "f">>), Val(FormatPdb),
     Val(<<"M", "M", "C", "I", "F">>)}

FormatConfigs ==
    [url : FormatUrls, format : FormatFormats,
     ligand : {NoAttr}, colorPlan : {NoPlanAttr},
     hasViewerEl : {TRUE}, hasLoadingEl : {TRUE}, mvsAvailable : BOOLEAN]

\* a || fallback, for an attribute value
AttrOr(attr, fallback) == IF attr.present /\ attr.s # << >> THEN attr.s ELSE fallback

\* const format = container.getAttribute('data-format') || 'mmcif'
format(c) == AttrOr(c.format, FormatMmcif)

\* const ligandName = container.getAttribute('data-ligand') || ''
ligandName(c) == AttrOr(c.ligand, << >>)

colorPlan(c) == ParseColorPlan(c.colorPlan)

isInlineDataUrl(c) == c.url.present /\ StartsWith(Trim(c.url.s), DataScheme)

\* !url || !viewerEl
NoStructureData(c) == ~c.url.present \/ c.url.s = << >> \/ ~c.hasViewerEl

\* the normalizedFormat of loadWithMvs
MvsNormalizedFormat(c) ==
    LET normalizedFormat == ToLowerCase(AttrOr(Val(format(c)), FormatMmcif))
    IN  IF /\ normalizedFormat = FormatBcif
           /\ isInlineDataUrl(c)
           /\ looksLikeTextCifDataUrl(c.url.s)
        THEN FormatMmcif
        ELSE normalizedFormat

DirectLoadArgsKeepsBinary(c) ==
    LET normalizedFormat == ToLowerCase(AttrOr(Val(format(c)), FormatMmcif))
        isBinary == normalizedFormat = FormatBcif
    IN  IF /\ normalizedFormat = FormatBcif
           /\ isInlineDataUrl(c)
           /\ looksLikeTextCifDataUrl(c.url.s)
        THEN [normalizedFormat |-> FormatMmcif, isBinary |-> isBinary]
        ELSE [normalizedFormat |-> normalizedFormat, isBinary |-> isBinary]

\* the normalizedFormat and isBinary of loadDirectly
DirectLoadArgs(c) ==
    LET normalizedFormat == ToLowerCase(AttrOr(Val(format(c)), FormatMmcif))
        isBinary == normalizedFormat = FormatBcif
    IN  IF /\ normalizedFormat = FormatBcif
           /\ isInlineDataUrl(c)
           /\ looksLikeTextCifDataUrl(c.url.s)
        THEN [normalizedFormat |-> FormatMmcif, isBinary |-> FALSE]
        ELSE [normalizedFormat |-> normalizedFormat, isBinary |-> isBinary]

\* the record of an initialization that has made no call yet
NewTask ==
    [pc |-> "start", attempt |-> 0, frames |-> 0, creates |-> 0,
     viewer |-> "none", mvsCalls |-> 0, mvsThrewAt |-> "none", mvsFormat |-> NoAttr,
     mvsScene |-> << >>,
     directCalls |-> 0, directFormat |-> NoAttr, directBinary |-> FALSE,
     recorded |-> "none", cause |-> "none"]

NoTask == [NewTask EXCEPT !.pc = "none"]

\* the record of an initialization that has ended
Ended(t, outcome, cause) ==
    [t EXCEPT !.pc = outcome, !.cause = cause,
              !.attempt = IF outcome = "timeout" THEN @ ELSE 0,
              !.frames = IF outcome = "timeout" THEN @ ELSE 0]

NoCall == [flip |-> FALSE, outcome |-> "none"]

ViewerInit ==
    /\ cfg \in Configs
    /\ isConnected \in BOOLEAN
    /\ hostCall = NoCall
    /\ tasks = << >>
    /\ last = NoTask
    /\ refuaRendering = FALSE
    /\ refuaRendered = FALSE
    /\ refuaLoadedFormat = NoAttr
    /\ refuaLoadedPath = "absent"
    /\ loadingText = "initial"
    /\ loadingDisplay = "initial"

\* loadingEl.textContent = txt, when the container has a loading element
Text(txt) == IF cfg.hasLoadingEl THEN txt ELSE loadingText

\* loadingEl.style.display = disp, when the container has a loading element
Display(disp) == IF cfg.hasLoadingEl THEN disp ELSE loadingDisplay

SetState(tk, lst, rendering, rendered, fmt, path, txt, disp) ==
    /\ tasks' = tk
    /\ last' = lst
    /\ refuaRendering' = rendering
    /\ refuaRendered' = rendered
    /\ refuaLoadedFormat' = fmt
    /\ refuaLoadedPath' = path
    /\ loadingText' = txt
    /\ loadingDisplay' = disp

PendingDropsRendering(others, t, lst, rendering) ==
    SetState(Append(others, t), lst, FALSE, refuaRendered,
             refuaLoadedFormat, refuaLoadedPath, loadingText, loadingDisplay)

\* the initialization t goes on waiting: nothing of the container changes
\* but the rendering flag the caller may have set
Pending(others, t, lst, rendering) ==
    SetState(Append(others, t), lst, rendering, refuaRendered,
             refuaLoadedFormat, refuaLoadedPath, loadingText, loadingDisplay)

CatchHandlerKeepsRendering(others, t, cause, fmt, path) ==
    SetState(others, Ended(t, "loadError", cause),
             refuaRendering, refuaRendered, fmt, path,
             Text("Failed to load structure"), Display("block"))

CatchHandlerRetries(others, t, cause, fmt, path) ==
    SetState(Append(others, [t EXCEPT !.pc = "create"]), Ended(t, "loadError", cause),
             FALSE, refuaRendered, fmt, path,
             Text("Failed to load structure"), Display("block"))

CatchHandlerForgetsLoad(others, t, cause, fmt, path) ==
    SetState(others, Ended(t, "loadError", cause),
             FALSE, refuaRendered, NoAttr, "absent",
             Text("Failed to load structure"), Display("block"))

\* the .catch handler of the Viewer.create chain
CatchHandler(others, t, cause, fmt, path) ==
    SetState(others, Ended(t, "loadError", cause),
             FALSE, refuaRendered, fmt, path,
             Text("Failed to load structure"), Display("block"))

FinalizeKeepsRendering(others, t, fmt, path) ==
    SetState(others, Ended([t EXCEPT !.recorded = path], "rendered", "none"),
             refuaRendering, TRUE, fmt, path, loadingText, Display("none"))

FinalizeRecordsMvs(others, t, fmt, path) ==
    LET loaded == [t EXCEPT !.recorded = "mvs"]
    IN  \E cameraThrows \in BOOLEAN :
            IF cameraThrows
            THEN CatchHandler(others, loaded, "afterLoad", fmt, "mvs")
            ELSE SetState(others, Ended(loaded, "rendered", "none"), FALSE, TRUE, fmt, "mvs",
                          loadingText, Display("none"))

\* the end of the .then handler: hide the indicator, reset the camera (which
\* may throw into the .catch handler), mark rendered
Finalize(others, t, fmt, path) ==
    LET loaded == [t EXCEPT !.recorded = path]
    IN  \E cameraThrows \in BOOLEAN :
            IF cameraThrows
            THEN CatchHandler(others, loaded, "afterLoad", fmt, path)
            ELSE SetState(others, Ended(loaded, "rendered", "none"), FALSE, TRUE, fmt, path,
                          loadingText, Display("none"))

ViewerHasLoadUnchecked(t) == t.viewer # "none"

\* typeof viewer.loadStructureFromUrl === 'function'
ViewerHasLoad(t) == t.viewer = "full"

\* loadDirectly up to its await
LoadDirectly(others, t) ==
    IF ~ViewerHasLoad(t)
    THEN CatchHandler(others, t, "unsupported", refuaLoadedFormat, refuaLoadedPath)
    ELSE LET args == DirectLoadArgs(cfg)
             called == [t EXCEPT !.directCalls = @ + 1,
                                 !.directFormat = Val(args.normalizedFormat),
                                 !.directBinary = args.isBinary]
         IN  \E threw \in BOOLEAN :
                 IF threw
                 THEN CatchHandler(others, called, "directFailed",
                                   refuaLoadedFormat, refuaLoadedPath)
                 ELSE Pending(others, [called EXCEPT !.pc = "loadDirect"], last,
                              refuaRendering)

\* where the try block of loadWithMvs may throw, "none" for nowhere: the
\* builder and loadMVS are the capability's and may throw whenever called;
\* applyColorPlan throws by itself ("colorPlan") for the plans that make it
ThrowPoints(plan) ==
    IF plan.threw
    THEN {"createBuilder", "colorPlan"}
    ELSE {"none", "createBuilder", "applyColorPlan", "loadMVS"}

LoadWithMvsPropagates(others, t) ==
    IF ~cfg.mvsAvailable
    THEN LoadDirectly(others, t)
    ELSE LET computed == [t EXCEPT !.mvsFormat = Val(MvsNormalizedFormat(cfg))]
             plan == applyColorPlan(colorPlan(cfg), ligandName(cfg))
         IN  \E threwAt \in ThrowPoints(plan) :
                 IF threwAt = "none"
                 THEN Pending(others, [computed EXCEPT !.pc = "loadMVS", !.mvsCalls = @ + 1,
                                                       !.mvsScene = plan.structure],
                              last, refuaRendering)
                 ELSE CatchHandler(others, [computed EXCEPT !.mvsThrewAt = threwAt],
                                   "mvsFailed", refuaLoadedFormat, refuaLoadedPath)

\* loadWithMvs up to its await; a throw inside its try block makes it return
\* false, and the .then handler goes on to loadDirectly
LoadWithMvs(others, t) ==
    IF ~cfg.mvsAvailable
    THEN LoadDirectly(others, t)
    ELSE LET computed == [t EXCEPT !.mvsFormat = Val(MvsNormalizedFormat(cfg))]
             plan == applyColorPlan(colorPlan(cfg), ligandName(cfg))
         IN  \E threwAt \in ThrowPoints(plan) :
                 IF threwAt = "none"
                 THEN Pending(others, [computed EXCEPT !.pc = "loadMVS", !.mvsCalls = @ + 1,
                                                       !.mvsScene = plan.structure],
                              last, refuaRendering)
                 ELSE LoadDirectly(others,
                          [computed EXCEPT !.mvsThrewAt = threwAt,
                                           !.mvsCalls = IF threwAt = "loadMVS" THEN @ + 1 ELSE @,
                                           !.mvsScene = IF threwAt = "loadMVS"
                                                        THEN plan.structure ELSE @])

GateExhaustedLate(attempt) == attempt > MaxAttempts

\* attempt >= 20
GateExhausted(attempt) == attempt >= MaxAttempts

GateTimeoutKeepsRendering(others, t, attempt) ==
    SetState(others, Ended([t EXCEPT !.attempt = attempt], "timeout", "none"),
             refuaRendering, refuaRendered, refuaLoadedFormat, refuaLoadedPath,
             Text("Failed to create viewer"), Display("block"))

\* the gate gives up: the rendering flag is deleted and the failure shown
GateTimeout(others, t, attempt) ==
    SetState(others, Ended([t EXCEPT !.attempt = attempt], "timeout", "none"),
             FALSE, refuaRendered, refuaLoadedFormat, refuaLoadedPath,
             Text("Failed to create viewer"), Display("block"))

\* the try block of initializeViewer up to the call of Viewer.create, which
\* may throw into the catch block
CreateViewer(others, t, lst, attempt, rendering) ==
    \E threw \in BOOLEAN :
        LET called == [t EXCEPT !.attempt = attempt, !.creates = @ + 1]
        IN  IF threw
            THEN SetState(others, Ended(called, "renderError", "none"),
                          FALSE, refuaRendered, refuaLoadedFormat, refuaLoadedPath,
                          Text("Failed to render structure"), loadingDisplay)
            ELSE Pending(others, [called EXCEPT !.pc = "create"], lst, rendering)

initializeViewerGivesUpFirst(others, t, lst, attempt, rendering) ==
    IF GateExhausted(attempt)
    THEN GateTimeout(others, t, attempt)
    ELSE IF ~isConnected
    THEN Pending(others,
                 [t EXCEPT !.pc = "frame", !.attempt = attempt, !.frames = @ + 1],
                 lst, rendering)
    ELSE CreateViewer(others, t, lst, attempt, rendering)

\* initializeViewer(attempt), entered with the rendering flag as given; lst
\* is what is known of the initialization that ended before this one
initializeViewer(others, t, lst, attempt, rendering) ==
    IF ~isConnected
    THEN IF GateExhausted(attempt)
         THEN GateTimeout(others, t, attempt)
         ELSE Pending(others,
                      [t EXCEPT !.pc = "frame", !.attempt = attempt, !.frames = @ + 1],
                      lst, rendering)
    ELSE CreateViewer(others, t, lst, attempt, rendering)

\* the guard at the top of the forEach body of initMolstar
AlreadyInitializedRenderedOnly == refuaRendered

AlreadyInitialized == refuaRendered \/ refuaRendering

\* the host calls initRefuaWidgets on the root that holds the container
InitMolstar ==
    /\ UNCHANGED <<cfg, isConnected>>
    /\ IF AlreadyInitialized
       THEN /\ hostCall' = [flip |-> ~hostCall.flip, outcome |-> "skipped"]
            /\ UNCHANGED <<tasks, last, containerVars>>
       ELSE IF NoStructureData(cfg)
       THEN /\ hostCall' = [flip |-> ~hostCall.flip, outcome |-> "noData"]
            /\ SetState(tasks, last, refuaRendering, refuaRendered, refuaLoadedFormat,
                        refuaLoadedPath, Text("No structure data"), loadingDisplay)
       ELSE /\ hostCall' = [flip |-> ~hostCall.flip, outcome |-> "started"]
            /\ initializeViewer(tasks, NewTask, NoTask, 0, TRUE)

\* the continuations in flight other than the i-th
Others(i) == SubSeq(tasks, 1, i - 1) \o SubSeq(tasks, i + 1, Len(tasks))

\* the browser runs the callback a call of requestAnimationFrame queued
AnimationFrame ==
    \E i \in DOMAIN tasks :
        /\ tasks[i].pc = "frame"
        /\ initializeViewer(Others(i), tasks[i], last, tasks[i].attempt + 1, refuaRendering)
        /\ UNCHANGED <<cfg, isConnected, hostCall>>

\* the promise of Viewer.create settles
ViewerCreateSettles ==
    \E i \in DOMAIN tasks : LET t == tasks[i] IN
        /\ t.pc = "create"
        /\ \E outcome \in {"rejected", "viewer", "viewerWithoutLoad"} :
               IF outcome = "rejected"
               THEN CatchHandler(Others(i), t, "createRejected",
                                 refuaLoadedFormat, refuaLoadedPath)
               ELSE LoadWithMvs(Others(i),
                                [t EXCEPT !.viewer = IF outcome = "viewer" THEN "full"
                                                     ELSE "noLoad",
                                          !.attempt = 0, !.frames = 0])
        /\ UNCHANGED <<cfg, isConnected, hostCall>>

\* the promise of mvs.loadMVS settles
LoadMvsSettles ==
    \E i \in DOMAIN tasks : LET t == tasks[i] IN
        /\ t.pc = "loadMVS"
        /\ \E resolved \in BOOLEAN :
               IF resolved
               THEN Finalize(Others(i), t, t.mvsFormat, "mvs")
               ELSE LoadDirectly(Others(i), [t EXCEPT !.mvsThrewAt = "loadMVS"])
        /\ UNCHANGED <<cfg, isConnected, hostCall>>

\* the promise of viewer.loadStructureFromUrl settles
LoadDirectSettles ==
    \E i \in DOMAIN tasks : LET t == tasks[i] IN
        /\ t.pc = "loadDirect"
        /\ \E resolved \in BOOLEAN :
               IF resolved
               THEN Finalize(Others(i), t, t.directFormat, "direct")
               ELSE CatchHandler(Others(i), t, "directFailed",
                                 refuaLoadedFormat, refuaLoadedPath)
        /\ UNCHANGED <<cfg, isConnected, hostCall>>

\* the host mounts or unmounts the output node that holds the viewer element
HostAttaches ==
    /\ isConnected' = ~isConnected
    /\ UNCHANGED <<cfg, hostCall, tasks, last, containerVars>>

(***************************************************************************)
(* The inputs of normalizeChainGroups and makeChainSelector                *)
(***************************************************************************)
VARIABLES rawGroups, normalized, selected

chainVars == <<rawGroups, normalized, selected>>

\* at most this many elements in a raw list of groups
MaxGroups == 2

\* at most this many raw tokens in a raw list of groups, all groups together
MaxTokens == 3

RawTokens ==
    {Val(<<"A">>), Val(<<" ", "A", " ">>), Val(<<"B">>), Val(<<" ">>), NoAttr}

\* the arrays of at most n raw tokens, and what is not an array
RawGroupChoices(n) ==
    {NotArray} \cup {Array(items) : items \in UNION {[1..l -> RawTokens] : l \in 0..n}}

RECURSIVE RawGroupLists(_, _)
\* the lists of k raw groups that hold at most n raw tokens together
RawGroupLists(k, n) ==
    IF k = 0 THEN {<< >>}
    ELSE UNION {{<<g>> \o rest : rest \in RawGroupLists(k - 1, n - Len(g.items))} :
                  g \in RawGroupChoices(n)}

\* what normalizeChainGroups is given: what is not an array, and the arrays of
\* at most maxGroups raw groups that hold at most maxTokens raw tokens
RawGroupsInputs(maxGroups, maxTokens) ==
    {NotArray}
      \cup {Array(items) : items \in UNION {RawGroupLists(k, maxTokens) : k \in 0..maxGroups}}

NotNormalized == [done |-> FALSE, groups |-> << >>]

NotSelected == [index |-> 0, selector |-> SelectorNull]

ChainsIdle ==
    /\ rawGroups = NotArray
    /\ normalized = NotNormalized
    /\ selected = NotSelected

ChainsInit ==
    /\ rawGroups \in RawGroupsInputs(MaxGroups, MaxTokens)
    /\ normalized = NotNormalized
    /\ selected = NotSelected

\* applyColorPlan hands one role's field of the colour plan to normalizeChainGroups
NormalizeChainGroups ==
    /\ ~normalized.done
    /\ normalized' = [done |-> TRUE, groups |-> normalizeChainGroups(rawGroups)]
    /\ UNCHANGED <<rawGroups, selected>>

\* makeChainSelector is called on the i-th element of the raw list
MakeChainSelector ==
    \E i \in 1..Len(rawGroups.items) :
        /\ selected.index = 0
        /\ selected' = [index |-> i, selector |-> makeChainSelector(rawGroups.items[i])]
        /\ UNCHANGED <<rawGroups, normalized>>

ViewerIdle ==
    /\ cfg \in {c \in Configs : ~c.url.present /\ ~c.format.present /\ c.hasViewerEl
                                /\ c.hasLoadingEl /\ c.mvsAvailable}
    /\ isConnected = TRUE
    /\ hostCall = NoCall
    /\ tasks = << >>
    /\ last = NoTask
    /\ refuaRendering = FALSE
    /\ refuaRendered = FALSE
    /\ refuaLoadedFormat = NoAttr
    /\ refuaLoadedPath = "absent"
    /\ loadingText = "initial"
    /\ loadingDisplay = "initial"

\* a container of every structure source, on a page that is already mounted
FormatInit ==
    /\ cfg \in FormatConfigs
    /\ isConnected = TRUE
    /\ hostCall = NoCall
    /\ tasks = << >>
    /\ last = NoTask
    /\ refuaRendering = FALSE
    /\ refuaRendered = FALSE
    /\ refuaLoadedFormat = NoAttr
    /\ refuaLoadedPath = "absent"
    /\ loadingText = "initial"
    /\ loadingDisplay = "initial"

(***************************************************************************)
(* The inputs of applyColorPlan                                            *)
(*                                                                         *)
(* scene is what a call of applyColorPlan, with the colour plan and the    *)
(* ligand name of cfg, has the builder issue.                              *)
(***************************************************************************)
VARIABLES scene

sceneVars == <<scene>>

\* at most this many groups in the lists of groups of distinct chains
MaxPlanGroups == 9

\* a field the colour plan does not have
Undefined == [isArray |-> FALSE, items |-> << >>, defined |-> FALSE]

\* k groups of one chain each: [["A"], ["B"], ...]
Linear(k) == Array([i \in 1..k |-> Array(<<Val(<<UpperLetters[i]>>)>>)])

\* [["A", " A ", "B"], 7, ["B", null], ["C"]]
GroupsWithRepeats ==
    Array(<<Array(<<Val(<<"A">>), Val(<<" ", "A", " ">>), Val(<<"B">>)>>),
            NotArray,
            Array(<<Val(<<"B">>), NoAttr>>),
            Array(<<Val(<<"C">>)>>)>>)

\* [[" "], []]
GroupsOfBlanks == Array(<<Array(<<Val(<<" ">>)>>), Array(<< >>)>>)

\* [["A"], [{"toString": 1}]]
GroupsUnconvertible == Array(<<Array(<<Val(<<"A">>)>>), Array(<<Unconvertible>>)>>)

\* the protein and the ligand field of the plans applyColorPlan is given
MajorChoices(maxGroups) ==
    {Undefined, NotArray, GroupsWithRepeats, GroupsOfBlanks}
      \cup {Linear(k) : k \in 0..maxGroups}

\* the nucleic field, and the ion field, of the plans applyColorPlan is given
MinorChoices == {Undefined, Linear(2)}

IonChoices == {NotArray, Linear(2)}

OtherChoices == {Undefined, NotArray, Linear(2), GroupsUnconvertible}

\* the object with the fields given, less those that are undefined
PlanObject(protein, nucleic, ligand, ion, other) ==
    LET all == [key \in PlanFields |->
                   IF key = ProteinField THEN protein
                   ELSE IF key = NucleicField THEN nucleic
                   ELSE IF key = LigandField THEN ligand
                   ELSE IF key = IonField THEN ion
                   ELSE other]
    IN  JsonObject([key \in {k \in PlanFields : all[k] # Undefined} |-> all[key]])

\* the values of data-color-plan that are not the text of an object:
\* missing, '', text that does not parse, null, 0, 7, "x", true, []
DegeneratePlanAttrs ==
    {NoPlanAttr, PlanAttr(EmptyText), PlanAttr(MalformedText),
     PlanAttr(TextOf(JsonNull)),
     PlanAttr(TextOf(JsonValue("number", FALSE, NoFields))),
     PlanAttr(TextOf(JsonValue("number", TRUE, NoFields))),
     PlanAttr(TextOf(JsonValue("string", TRUE, NoFields))),
     PlanAttr(TextOf(JsonValue("boolean", TRUE, NoFields))),
     PlanAttr(TextOf(JsonValue("array", TRUE, NoFields)))}

PlanAttrs(maxGroups) ==
    DegeneratePlanAttrs
      \cup {PlanAttr(TextOf(PlanObject(protein, nucleic, ligand, ion, other))) :
              protein \in MajorChoices(maxGroups), nucleic \in MinorChoices,
              ligand \in MajorChoices(maxGroups), ion \in IonChoices,
              other \in OtherChoices}

LigandNames == {NoAttr, Val(<< >>), Val(<<"L", "I", "G">>)}

PlanConfigs(maxGroups) ==
    [url : {Val(UrlNetwork)}, format : {NoAttr},
     ligand : LigandNames, colorPlan : PlanAttrs(maxGroups),
     hasViewerEl : {TRUE}, hasLoadingEl : {TRUE}, mvsAvailable : {TRUE}]

\* the plans a container is loaded with
LoadPlanAttrs ==
    DegeneratePlanAttrs
      \cup {PlanAttr(TextOf(EmptyPlan)),
            PlanAttr(TextOf(PlanObject(NotArray, Undefined, Linear(2), Undefined, Undefined))),
            PlanAttr(TextOf(PlanObject(Linear(1), NotArray, Undefined, NotArray, Linear(1)))),
            PlanAttr(TextOf(PlanObject(GroupsWithRepeats, Undefined, Linear(1), Undefined,
                                       Undefined))),
            PlanAttr(TextOf(PlanObject(Undefined, Undefined, Undefined, Undefined,
                                       GroupsUnconvertible)))}

LoadPlanConfigs ==
    [url : {Val(UrlNetwork)}, format : {NoAttr},
     ligand : {NoAttr, Val(<<"L", "I", "G">>)}, colorPlan : LoadPlanAttrs,
     hasViewerEl : {TRUE}, hasLoadingEl : {TRUE}, mvsAvailable : {TRUE}]

NotBuilt == [built |-> FALSE, threw |-> FALSE, structure |-> << >>]

SceneIdle == scene = NotBuilt

\* loadWithMvs calls applyColorPlan on the structure of a new builder
ApplyColorPlan ==
    /\ ~scene.built
    /\ scene' = [built |-> TRUE,
                 threw |-> applyColorPlan(colorPlan(cfg), ligandName(cfg)).threw,
                 structure |-> applyColorPlan(colorPlan(cfg), ligandName(cfg)).structure]

\* a mounted container at rest whose cfg is one of configs
ViewerAt(configs) ==
    /\ cfg \in configs
    /\ isConnected = TRUE
    /\ hostCall = NoCall
    /\ tasks = << >>
    /\ last = NoTask
    /\ refuaRendering = FALSE
    /\ refuaRendered = FALSE
    /\ refuaLoadedFormat = NoAttr
    /\ refuaLoadedPath = "absent"
    /\ loadingText = "initial"
    /\ loadingDisplay = "initial"

(***************************************************************************)
(* The inputs of looksLikeTextCifDataUrl                                   *)
(*                                                                         *)
(* sniffUrl is the candidate URL, sniffed what the sniff returned for it.  *)
(* A payload is a concatenation of a few pieces (blanks, sentinels, whole  *)
(* and cut-off escapes, encoded and misencoded text), or one of the long   *)
(* payloads that reach the end of the sample.                              *)
(***************************************************************************)
VARIABLES sniffUrl, sniffed

sniffVars == <<sniffUrl, sniffed>>

\* at most this many pieces in a payload
MaxPieces == 3

PercentPieces ==
    {<<" ">>, <<"%", "2", "0">>, <<"_">>, <<"%", "5", "F">>, <<"%", "5">>,
     <<"%", "E", "9">>, <<"H">>, <<"d", "a", "t", "a">>, <<"d", "a", "t", "a", "_">>,
     <<"l", "o", "o", "p", "_">>, <<"%", "6", "4", "a", "t", "a", "_">>}

\* the base64 of 'data_', 'loop_', '_', '_' unpadded, '_a' unpadded, ' _',
\* three blanks and 'HEA'; whitespace, a character outside the alphabet and
\* a lone character
Base64Pieces ==
    {<<"Z", "G", "F", "0", "Y", "V", "8", "=">>, <<"b", "G", "9", "v", "c", "F", "8", "=">>,
     <<"X", "w", "=", "=">>, <<"X", "w">>, <<"X", "2", "E">>, <<"I", "F", "8", "=">>,
     <<"I", "C", "A", "g">>, <<"S", "E", "V", "B">>, <<" ">>, <<"!">>, <<"X">>}

RECURSIVE Concatenations(_, _)
\* the concatenations of at most n of the pieces
Concatenations(pieces, n) ==
    IF n = 0 THEN {<< >>}
    ELSE {<< >>} \cup {piece \o rest : piece \in pieces, rest \in Concatenations(pieces, n - 1)}

\* str repeated n times
RepeatStr(str, n) == [i \in 1..(n * Len(str)) |-> str[((i - 1) % Len(str)) + 1]]

\* long percent-encoded payloads: blanks up to and past the end of the
\* sample before a sentinel, an escape across the end of the sample, and a
\* malformed escape past the sample
LongPercentPayloads ==
    {Repeat(" ", k) \o SentinelData : k \in {SampleLen - 5, SampleLen - 4, SampleLen}}
      \cup {<<"_">> \o Repeat("x", SampleLen - 3) \o <<"%", "5", "F">>,
            <<"_">> \o Repeat("x", SampleLen - 4) \o <<"%", "5", "F">>,
            <<"_">> \o Repeat("x", SampleLen) \o <<"%", "z", "z">>,
            <<"H">> \o Repeat("x", SampleLen) \o <<"_">>}

\* long base64 payloads: 510 and 513 encoded blanks before an encoded '_',
\* and encoded text that fills the chunk before a character outside the
\* alphabet, a lone character, or more text
LongBase64Payloads ==
    {RepeatStr(<<"I", "C", "A", "g">>, 170) \o <<"X", "w", "=", "=">>,
     RepeatStr(<<"I", "C", "A", "g">>, 171) \o <<"X", "w", "=", "=">>,
     RepeatStr(<<"X", "2", "F", "h">>, Base64ChunkLen \div 4) \o <<"!">>,
     RepeatStr(<<"X", "2", "F", "h">>, Base64ChunkLen \div 4) \o <<"X">>,
     RepeatStr(<<"S", "E", "V", "B">>, Base64ChunkLen \div 4) \o <<"X", "w", "=", "=">>}

PercentMetas == {<< >>, <<"t", "e", "x", "t", "/", "p", "l", "a", "i", "n">>}

Base64Metas ==
    {Base64Marker, <<"t", "e", "x", "t", "/", "x", ";", "B", "A", "S", "E", "6", "4">>}

\* the inline data URLs the sniff is given, and one without a comma
SniffUrls(maxPieces) ==
    {DataScheme \o meta \o <<",">> \o payload :
        meta \in PercentMetas,
        payload \in Concatenations(PercentPieces, maxPieces) \cup LongPercentPayloads}
      \cup {DataScheme \o meta \o <<",">> \o payload :
              meta \in Base64Metas,
              payload \in Concatenations(Base64Pieces, maxPieces) \cup LongBase64Payloads}
      \cup {DataScheme \o Base64Marker \o <<"_">>}

NotSniffed == [done |-> FALSE, value |-> FALSE]

SniffIdle ==
    /\ sniffUrl = << >>
    /\ sniffed = NotSniffed

SniffInit ==
    /\ sniffUrl \in SniffUrls(MaxPieces)
    /\ sniffed = NotSniffed

\* loadWithMvs or loadDirectly calls looksLikeTextCifDataUrl(url)
LooksLikeTextCifDataUrl ==
    /\ ~sniffed.done
    /\ sniffed' = [done |-> TRUE, value |-> looksLikeTextCifDataUrl(sniffUrl)]
    /\ UNCHANGED sniffUrl

(***************************************************************************)
(* Specifications                                                          *)
(***************************************************************************)
vars == <<viewerVars, chainVars, sceneVars, sniffVars>>

\* one container, from the host's first call on
Init == ViewerInit /\ ChainsIdle /\ SceneIdle /\ SniffIdle

Next ==
    \/ InitMolstar /\ UNCHANGED <<chainVars, sceneVars, sniffVars>>
    \/ AnimationFrame /\ UNCHANGED <<chainVars, sceneVars, sniffVars>>
    \/ ViewerCreateSettles /\ UNCHANGED <<chainVars, sceneVars, sniffVars>>
    \/ LoadMvsSettles /\ UNCHANGED <<chainVars, sceneVars, sniffVars>>
    \/ LoadDirectSettles /\ UNCHANGED <<chainVars, sceneVars, sniffVars>>
    \/ HostAttaches /\ UNCHANGED <<chainVars, sceneVars, sniffVars>>

Spec == Init /\ [][Next]_vars

\* a container that has a structure source, a viewer element and a loading
\* element, where the scene-description extension is available
InitLive ==
    /\ Init
    /\ cfg.url = Val(UrlNetwork)
    /\ ~cfg.format.present
    /\ cfg.hasViewerEl
    /\ cfg.hasLoadingEl
    /\ cfg.mvsAvailable

\* such a container, when the browser goes on running animation frames and
\* every call of the viewer capability settles
SpecLive ==
    /\ InitLive
    /\ [][Next]_vars
    /\ WF_vars(AnimationFrame /\ UNCHANGED <<chainVars, sceneVars, sniffVars>>)
    /\ WF_vars(ViewerCreateSettles /\ UNCHANGED <<chainVars, sceneVars, sniffVars>>)
    /\ WF_vars(LoadMvsSettles /\ UNCHANGED <<chainVars, sceneVars, sniffVars>>)
    /\ WF_vars(LoadDirectSettles /\ UNCHANGED <<chainVars, sceneVars, sniffVars>>)

\* normalizeChainGroups and makeChainSelector on every raw list of groups
InitChains == ViewerIdle /\ ChainsInit /\ SceneIdle /\ SniffIdle

NextChains ==
    \/ NormalizeChainGroups /\ UNCHANGED <<viewerVars, sceneVars, sniffVars>>
    \/ MakeChainSelector /\ UNCHANGED <<viewerVars, sceneVars, sniffVars>>

SpecChains == InitChains /\ [][NextChains]_vars

\* the loads of every structure source, the viewer element staying connected
InitFormat == FormatInit /\ ChainsIdle /\ SceneIdle /\ SniffIdle

NextFormat ==
    \/ InitMolstar /\ UNCHANGED <<chainVars, sceneVars, sniffVars>>
    \/ ViewerCreateSettles /\ UNCHANGED <<chainVars, sceneVars, sniffVars>>
    \/ LoadMvsSettles /\ UNCHANGED <<chainVars, sceneVars, sniffVars>>
    \/ LoadDirectSettles /\ UNCHANGED <<chainVars, sceneVars, sniffVars>>

SpecFormat == InitFormat /\ [][NextFormat]_vars

\* the loads of a container under every kind of colour plan, the viewer
\* element staying connected
InitPlanLoad == ViewerAt(LoadPlanConfigs) /\ ChainsIdle /\ SceneIdle /\ SniffIdle

NextPlanLoad ==
    \/ InitMolstar /\ UNCHANGED <<chainVars, sceneVars, sniffVars>>
    \/ ViewerCreateSettles /\ UNCHANGED <<chainVars, sceneVars, sniffVars>>
    \/ LoadMvsSettles /\ UNCHANGED <<chainVars, sceneVars, sniffVars>>
    \/ LoadDirectSettles /\ UNCHANGED <<chainVars, sceneVars, sniffVars>>

SpecPlanLoad == InitPlanLoad /\ [][NextPlanLoad]_vars

\* applyColorPlan on every colour plan and ligand name
InitPlan == ViewerAt(PlanConfigs(MaxPlanGroups)) /\ ChainsIdle /\ SceneIdle /\ SniffIdle

NextPlan == ApplyColorPlan /\ UNCHANGED <<viewerVars, chainVars, sniffVars>>

SpecPlan == InitPlan /\ [][NextPlan]_vars

\* looksLikeTextCifDataUrl on its own, from every candidate URL
InitSniff == ViewerIdle /\ ChainsIdle /\ SceneIdle /\ SniffInit

NextSniff == LooksLikeTextCifDataUrl /\ UNCHANGED <<viewerVars, chainVars, sceneVars>>

SpecSniff == InitSniff /\ [][NextSniff]_vars

(***************************************************************************)
(* Properties                                                              *)
(***************************************************************************)
\* the records of the initializations in flight and of the one that ended last
Records == {tasks[i] : i \in DOMAIN tasks} \cup {last}

RenderState ==
    IF refuaRendered THEN "rendered"
    ELSE IF refuaRendering THEN "rendering"
    ELSE "unrendered"

FailureOutcomes == {"timeout", "loadError", "renderError"}

\* C1: a call of initMolstar on a container whose rendered or rendering flag
\* is set changes nothing of that container: no continuation is added to or
\* taken from those in flight (no frame requested, no viewer created, no load
\* started), and the flags, the loaded format, the loaded path and the
\* loading indicator stay as they are.
C1_ReinvocationIsNoOp ==
    [][(hostCall' # hostCall /\ (refuaRendered \/ refuaRendering))
         => UNCHANGED <<tasks, last, containerVars>>]_vars

\* the host has called again while an initialization was waiting, and the
\* guard has skipped the call
C1_Witness ==
    /\ hostCall.outcome = "skipped"
    /\ refuaRendering
    /\ \E i \in DOMAIN tasks : tasks[i].pc = "loadMVS"

\* C2: the render state only moves unrendered -> rendering (a call of the
\* host starts an initialization), rendering -> rendered (success) or
\* rendering -> unrendered (timeout or failure); once rendered it stays
\* rendered and the rendering flag is never set again.
C2_RenderStateTransitions ==
    [][/\ (RenderState = "unrendered" /\ RenderState' # "unrendered")
            => (RenderState' = "rendering" /\ hostCall' # hostCall)
       /\ (RenderState = "rendering" /\ RenderState' = "rendered")
            => last'.pc = "rendered"
       /\ (RenderState = "rendering" /\ RenderState' = "unrendered")
            => last'.pc \in FailureOutcomes
       /\ refuaRendered => (refuaRendered' /\ ~refuaRendering')]_vars

\* a container that timed out, was initialized again and is rendered, and on
\* which the host has called once more
C2_Witness ==
    /\ refuaRendered
    /\ ~refuaRendering
    /\ loadingText = "Failed to create viewer"
    /\ hostCall.outcome = "skipped"

\* C3: an initialization that has ended, however it ended, has left the
\* rendering flag cleared.
C3_EveryExitClearsRendering ==
    last.pc \in FailureOutcomes \cup {"rendered"} => ~refuaRendering

\* the camera reset threw after the structure was loaded
C3_Witness ==
    /\ last.pc = "loadError"
    /\ last.cause = "afterLoad"
    /\ ~refuaRendering

\* C4: the gate requests a frame at the attempts 0..19 only; the timeout is
\* the check after the 20th frame, when exactly 20 frames were requested, no
\* viewer was created and nothing is left in flight, and it leaves the
\* rendering flag cleared, the rendered flag unset and the loading indicator
\* visible with 'Failed to create viewer'.
C4_TimeoutAfterTwentyFrames ==
    /\ \A r \in Records :
           r.pc = "frame" => (r.frames = r.attempt + 1 /\ r.frames <= 20 /\ r.creates = 0)
    /\ last.pc = "timeout"
         => /\ last.frames = 20
            /\ last.attempt = 20
            /\ last.creates = 0
            /\ tasks = << >>
            /\ ~refuaRendering
            /\ ~refuaRendered
            /\ cfg.hasLoadingEl
                 => (loadingText = "Failed to create viewer" /\ loadingDisplay = "block")

\* the viewer element was disconnected at all 21 checks
C4_Witness ==
    /\ last.pc = "timeout"
    /\ last.frames = 20
    /\ cfg.hasLoadingEl
    /\ loadingText = "Failed to create viewer"

\* C5 as stated: whenever the scene-description path has thrown, the
\* initialization has called loadStructureFromUrl exactly once with the format
\* the scene-description path computed, and the loaded path on record is
\* 'direct'.
C5_Original ==
    last.mvsThrewAt # "none"
      => /\ last.directCalls = 1
         /\ last.directFormat = last.mvsFormat
         /\ refuaLoadedPath = "direct"

\* C5, amended: a throw of the scene-description path does not end the
\* initialization; when the viewer exposes loadStructureFromUrl, it has been
\* called exactly once, with the format the scene-description path computed;
\* and a load that completed after such a throw is on record as 'direct'.
C5_FallbackToDirect ==
    \A r \in Records :
        r.mvsThrewAt # "none"
          => /\ r.pc \in {"loadDirect", "rendered", "loadError"}
             /\ r.pc = "loadError" => r.cause \in {"unsupported", "directFailed", "afterLoad"}
             /\ r.viewer = "full"
                  => (r.directCalls = 1 /\ r.directFormat = r.mvsFormat)
             /\ r.recorded # "none" => r.recorded = "direct"
             /\ (r = last /\ r.recorded # "none") => refuaLoadedPath = "direct"
             /\ (r = last /\ r.pc = "rendered")
                  => (r.recorded = "direct" /\ refuaLoadedPath = "direct")

\* loadMVS rejected, the direct load was made once and the container is rendered
C5_Witness ==
    /\ last.pc = "rendered"
    /\ last.mvsThrewAt = "loadMVS"
    /\ last.directCalls = 1
    /\ last.mvsFormat = last.directFormat
    /\ refuaLoadedPath = "direct"

\* the scene-description path is of no use to the initialization of record r
MvsUnavailableOrFailed(r) == ~cfg.mvsAvailable \/ r.mvsThrewAt # "none"

\* C6: when the scene-description path is unavailable or has failed and the
\* viewer has no loadStructureFromUrl, the initialization has ended at once:
\* no load call was made and it recorded no loaded path, nothing is in
\* flight, the container is neither rendered nor rendering, and the loading
\* indicator is visible with 'Failed to load structure'.
C6_UnsupportedViewerIsTerminal ==
    /\ \A i \in DOMAIN tasks :
           ~(tasks[i].viewer = "noLoad" /\ MvsUnavailableOrFailed(tasks[i]))
    /\ (last.viewer = "noLoad" /\ MvsUnavailableOrFailed(last))
         => /\ last.pc = "loadError"
            /\ last.cause = "unsupported"
            /\ last.directCalls = 0
            /\ last.recorded = "none"
            /\ tasks = << >>
            /\ ~refuaRendered
            /\ ~refuaRendering
            /\ cfg.hasLoadingEl
                 => (loadingText = "Failed to load structure" /\ loadingDisplay = "block")

\* loadMVS rejected and the viewer has no loadStructureFromUrl
C6_Witness ==
    /\ last.viewer = "noLoad"
    /\ last.mvsThrewAt = "loadMVS"
    /\ last.cause = "unsupported"
    /\ cfg.hasLoadingEl
    /\ loadingText = "Failed to load structure"

\* the first step of an initialization that starts from nothing
FreshStart ==
    /\ hostCall'.outcome = "started"
    /\ IF ~isConnected
       THEN /\ tasks' = <<[NewTask EXCEPT !.pc = "frame", !.frames = 1]>>
            /\ refuaRendering'
       ELSE \/ /\ tasks' = <<[NewTask EXCEPT !.pc = "create", !.creates = 1]>>
               /\ refuaRendering'
            \/ /\ tasks' = << >>
               /\ last' = [NewTask EXCEPT !.pc = "renderError", !.creates = 1]

\* C7: after an initialization has failed nothing is in flight and nothing of
\* the container changes until the host calls again; that call starts an
\* initialization from nothing (attempt 0, no frame but its own, a new call
\* of Viewer.create once the element is connected); and an initialization
\* calls loadStructureFromUrl only when the scene-description path is
\* unavailable or has thrown.
C7_NoAutomaticRetry ==
    /\ [](last.pc \in FailureOutcomes => tasks = << >>)
    /\ [](\A r \in Records : r.directCalls > 0 => MvsUnavailableOrFailed(r))
    /\ [][last.pc \in FailureOutcomes
            => IF hostCall' = hostCall
               THEN UNCHANGED <<tasks, last, containerVars>>
               ELSE FreshStart]_vars

\* a container whose initialization failed to load and that a later call of
\* the host has rendered through the scene-description path
C7_Witness ==
    /\ refuaRendered
    /\ last.pc = "rendered"
    /\ last.recorded = "mvs"
    /\ loadingText = "Failed to load structure"

\* the declared format, 'mmcif' when data-format is missing or empty
DeclaredFormat == IF cfg.format.present /\ cfg.format.s # << >> THEN cfg.format.s ELSE FormatMmcif

\* what C8 says the effective format is
EffectiveFormat ==
    IF /\ ToLowerCase(DeclaredFormat) = FormatBcif
       /\ isInlineDataUrl(cfg)
       /\ looksLikeTextCifDataUrl(cfg.url.s)
    THEN FormatMmcif
    ELSE ToLowerCase(DeclaredFormat)

\* C8: the format either load path uses is the lower-cased declared format,
\* and 'mmcif' instead exactly when that is 'bcif', the source is an inline
\* data URL and the sniff reports text; the binary flag of the direct load is
\* true exactly when the format used is 'bcif'; the format of a source that
\* is not inline is the lower-cased declared one; both paths use the same.
C8_EffectiveFormat ==
    \A r \in Records :
        /\ r.mvsFormat.present => r.mvsFormat.s = EffectiveFormat
        /\ r.directCalls > 0
             => /\ r.directFormat = Val(EffectiveFormat)
                /\ r.directBinary <=> (r.directFormat.s = FormatBcif)
        /\ (r.mvsFormat.present /\ r.directCalls > 0) => r.mvsFormat = r.directFormat
        /\ ~isInlineDataUrl(cfg)
             => /\ r.mvsFormat.present => r.mvsFormat.s = ToLowerCase(DeclaredFormat)
                /\ r.directCalls > 0 => r.directFormat.s = ToLowerCase(DeclaredFormat)

\* a source declared 'bcif' whose inline payload is text, loaded directly as
\* 'mmcif' and not as binary after the scene-description path computed 'mmcif'
C8_Witness ==
    \E r \in Records :
        /\ ToLowerCase(DeclaredFormat) = FormatBcif
        /\ r.mvsFormat = Val(FormatMmcif)
        /\ r.directCalls = 1
        /\ r.directFormat = Val(FormatMmcif)
        /\ ~r.directBinary

\* the trimmed, non-empty tokens of a raw group, none for what is not an array
TokenSet(rawGroup) ==
    {TokenOf(rawGroup.items[j]) : j \in 1..Len(rawGroup.items)} \ {<< >>}

\* the place of the first raw token of a raw group that trims to the token
FirstPlace(rawGroup, token) ==
    CHOOSE j \in 1..Len(rawGroup.items) :
        /\ TokenOf(rawGroup.items[j]) = token
        /\ \A k \in 1..(j - 1) : TokenOf(rawGroup.items[k]) # token

\* the first raw group that holds the token
FirstGroup(token) ==
    CHOOSE i \in 1..Len(rawGroups.items) :
        /\ token \in TokenSet(rawGroups.items[i])
        /\ \A k \in 1..(i - 1) : token \notin TokenSet(rawGroups.items[k])

\* the raw groups that are the first to hold some token
FirstHolders ==
    {i \in 1..Len(rawGroups.items) :
        \E token \in TokenSet(rawGroups.items[i]) : FirstGroup(token) = i}

\* the raw group the m-th output group corresponds to
SourceOf(m) == CHOOSE i \in FirstHolders : Cardinality({k \in FirstHolders : k <= i}) = m

\* C9: for an array input, the output of normalizeChainGroups has one group,
\* not empty, for each raw group that is the first to hold some token, in the
\* input's order; a group holds exactly the tokens its raw group is the first
\* to hold, in the order of their first places there; so no token occurs
\* twice, and what is not an array gives no group.
C9_NormalizedGroups ==
    (normalized.done /\ rawGroups.isArray)
      => LET out == normalized.groups
         IN  /\ Len(out) = Cardinality(FirstHolders)
             /\ \A m \in 1..Len(out) :
                    LET src == rawGroups.items[SourceOf(m)]
                    IN  /\ Len(out[m]) > 0
                        /\ src.isArray
                        /\ {out[m][p] : p \in 1..Len(out[m])}
                             = {token \in TokenSet(src) : FirstGroup(token) = SourceOf(m)}
                        /\ \A p, q \in 1..Len(out[m]) :
                               p < q => FirstPlace(src, out[m][p]) < FirstPlace(src, out[m][q])
             /\ \A m, n \in 1..Len(out) : \A p \in 1..Len(out[m]) : \A q \in 1..Len(out[n]) :
                    out[m][p] = out[n][q] => (m = n /\ p = q)

\* two raw groups hold the same token and both give an output group
C9_Witness ==
    /\ normalized.done
    /\ Len(rawGroups.items) = 2
    /\ TokenSet(rawGroups.items[1]) \cap TokenSet(rawGroups.items[2]) # {}
    /\ Len(normalized.groups) = 2

\* C10: makeChainSelector returns null for what is not an array, for an empty
\* list and for a list of blank tokens only; otherwise it returns, for the
\* distinct trimmed tokens in the order of their first places, the
\* label_asym_id alternative and then the auth_asym_id alternative of each,
\* and nothing else: twice as many alternatives as distinct tokens.
C10_ChainSelector ==
    selected.index # 0
      => LET chainIds == rawGroups.items[selected.index]
             alternatives == selected.selector.alternatives
             count == Cardinality(TokenSet(chainIds))
         IN  IF count = 0
             THEN selected.selector = SelectorNull
             ELSE /\ selected.selector.kind = "list"
                  /\ Len(alternatives) = 2 * count
                  /\ \A k \in 1..count :
                         /\ alternatives[2 * k - 1].scheme = "label_asym_id"
                         /\ alternatives[2 * k].scheme = "auth_asym_id"
                         /\ alternatives[2 * k - 1].token = alternatives[2 * k].token
                         /\ alternatives[2 * k].token \in TokenSet(chainIds)
                  /\ \A k, l \in 1..count :
                         k < l => FirstPlace(chainIds, alternatives[2 * k].token)
                                    < FirstPlace(chainIds, alternatives[2 * l].token)

\* a list that names one chain twice gives two alternatives
C10_Witness ==
    /\ selected.index # 0
    /\ Len(rawGroups.items[selected.index].items) = 2
    /\ Cardinality(TokenSet(rawGroups.items[selected.index])) = 1
    /\ TokenOf(rawGroups.items[selected.index].items[1])
         = TokenOf(rawGroups.items[selected.index].items[2])
    /\ Len(selected.selector.alternatives) = 2

\* the value of data-color-plan is missing, or is not the text of an object
Degenerate(attr) ==
    \/ ~attr.present
    \/ attr.text.empty
    \/ ~attr.text.parses
    \/ attr.text.value.type # "object"

\* a list of groups that are lists of strings
StringGroups(raw) ==
    /\ raw.isArray
    /\ \A i \in 1..Len(raw.items) :
           /\ raw.items[i].isArray
           /\ \A j \in 1..Len(raw.items[i].items) :
                  /\ raw.items[i].items[j].present
                  /\ raw.items[i].items[j] # Unconvertible

\* the text of an object that lacks the field of some role, or has for it
\* what is not an array, the fields that are arrays being lists of groups
PartlyMalformed(attr) ==
    /\ ~Degenerate(attr)
    /\ \E key \in PlanFields : ~Get(attr.text.value, key).isArray
    /\ \A key \in PlanFields :
           Get(attr.text.value, key).isArray => StringGroups(Get(attr.text.value, key))

\* the plan with an empty list of groups for each role whose field is not an array
WithoutMalformedFields(attr) ==
    JsonObject([key \in PlanFields |->
                   IF Get(attr.text.value, key).isArray
                   THEN Get(attr.text.value, key)
                   ELSE Array(<< >>)])

\* the scene of the empty plan: the five built-in role components
DefaultScene(name) ==
    <<[selector |-> [kind |-> "protein", alternatives |-> << >>], type |-> "cartoon",
       color |-> "#2563eb", opacity |-> NoOpacity, label |-> NoAttr],
      [selector |-> [kind |-> "nucleic", alternatives |-> << >>], type |-> "cartoon",
       color |-> "#f59e0b", opacity |-> NoOpacity, label |-> NoAttr],
      [selector |-> [kind |-> "ligand", alternatives |-> << >>], type |-> "ball_and_stick",
       color |-> "#db2777", opacity |-> NoOpacity,
       label |-> IF name # << >> THEN Val(name) ELSE NoAttr],
      [selector |-> [kind |-> "ion", alternatives |-> << >>], type |-> "ball_and_stick",
       color |-> "#14b8a6", opacity |-> NoOpacity, label |-> NoAttr],
      [selector |-> [kind |-> "branched", alternatives |-> << >>], type |-> "ball_and_stick",
       color |-> "#84cc16", opacity |-> NoOpacity, label |-> NoAttr]>>

PlanGroups(key) == normalizeChainGroups(Get(colorPlan(cfg), key))

\* the components a role takes in the scene: one for each group, or the one
\* of the built-in selector
Slots(key) == IF Len(PlanGroups(key)) > 0 THEN Len(PlanGroups(key)) ELSE 1

\* the number of the components issued before those of a role; none is
\* issued before those of the protein role
NucleicAt == Slots(ProteinField)

LigandAt == NucleicAt + Slots(NucleicField)

IonAt == LigandAt + Slots(LigandField)

BranchedAt == IonAt + Slots(IonField)

OtherAt == BranchedAt + 1

\* a scene was built without a throw
SceneBuilt == scene.built /\ ~scene.threw

\* the chains a component selects by a chain selector
ChainsOf(component) ==
    {component.selector.alternatives[k].token :
        k \in 1..Len(component.selector.alternatives)}

\* the component of the n-th normalized group of a role, n counted from 0
GroupComponent(at, n) == scene.structure[at + n + 1]

\* C12: the component of the n-th normalized protein group (n from 0) is a
\* 'cartoon' of opacity 1 in the colour n mod 8 of the protein palette, which
\* has 8 colours; that of the n-th normalized ligand group is a
\* 'ball_and_stick' in the colour n mod 5 of the ligand palette, which has 5;
\* so protein group 8 has the colour of protein group 0 and ligand group 5
\* that of ligand group 0.
C12_PaletteCycles ==
    SceneBuilt
      => /\ Len(proteinPalette) = 8
         /\ Len(ligandPalette) = 5
         /\ \A n \in 0..(Len(PlanGroups(ProteinField)) - 1) :
                LET c == GroupComponent(0, n)
                IN  /\ ChainsOf(c) = {PlanGroups(ProteinField)[n + 1][k] :
                                         k \in 1..Len(PlanGroups(ProteinField)[n + 1])}
                    /\ c.type = "cartoon"
                    /\ c.opacity = [given |-> TRUE, value |-> 1]
                    /\ c.color = proteinPalette[(n % 8) + 1]
                    /\ n >= 8 => c.color = GroupComponent(0, n - 8).color
         /\ \A n \in 0..(Len(PlanGroups(LigandField)) - 1) :
                LET c == GroupComponent(LigandAt, n)
                IN  /\ ChainsOf(c) = {PlanGroups(LigandField)[n + 1][k] :
                                         k \in 1..Len(PlanGroups(LigandField)[n + 1])}
                    /\ c.type = "ball_and_stick"
                    /\ c.color = ligandPalette[(n % 5) + 1]
                    /\ n >= 5 => c.color = GroupComponent(LigandAt, n - 5).color

\* nine protein groups and six ligand groups: protein group 8 and ligand
\* group 5 are coloured as the groups 0
C12_Witness ==
    /\ SceneBuilt
    /\ Len(PlanGroups(ProteinField)) = 9
    /\ Len(PlanGroups(LigandField)) = 6
    /\ GroupComponent(0, 8).color = "#2563eb"
    /\ GroupComponent(0, 7).color = "#9333ea"
    /\ GroupComponent(LigandAt, 5).color = "#db2777"

\* C13 as stated: the first and the second ligand group have the 1st and the
\* 2nd colour of the ligand palette, and a third ligand group has the 1st.
C13_Original ==
    SceneBuilt
      => /\ Len(PlanGroups(LigandField)) >= 1
              => GroupComponent(LigandAt, 0).color = "#db2777"
         /\ Len(PlanGroups(LigandField)) >= 2
              => GroupComponent(LigandAt, 1).color = "#c026d3"
         /\ Len(PlanGroups(LigandField)) >= 3
              => GroupComponent(LigandAt, 2).color = "#db2777"

\* C13, amended: the first, the second and the third ligand group have the
\* 1st, the 2nd and the 3rd colour of the ligand palette, three different
\* colours; the 1st colour is used again by the sixth ligand group, and by
\* no group before it.
C13_LigandPaletteOrder ==
    SceneBuilt
      => /\ Len(PlanGroups(LigandField)) >= 1
              => GroupComponent(LigandAt, 0).color = "#db2777"
         /\ Len(PlanGroups(LigandField)) >= 2
              => GroupComponent(LigandAt, 1).color = "#c026d3"
         /\ Len(PlanGroups(LigandField)) >= 3
              => GroupComponent(LigandAt, 2).color = "#e11d48"
         /\ \A n \in 1..(Len(PlanGroups(LigandField)) - 1) :
                (GroupComponent(LigandAt, n).color = GroupComponent(LigandAt, 0).color)
                  <=> (n % 5 = 0)

\* three ligand groups, in three colours
C13_Witness ==
    /\ SceneBuilt
    /\ Len(PlanGroups(LigandField)) = 3
    /\ GroupComponent(LigandAt, 0).color = "#db2777"
    /\ GroupComponent(LigandAt, 1).color = "#c026d3"
    /\ GroupComponent(LigandAt, 2).color = "#e11d48"

\* C14: at most one initialization of the container is in flight: one
\* exactly while the rendering flag is set and none otherwise, and the one
\* in flight has at most one frame request, one viewer creation, one call
\* of loadMVS and one direct load pending or made at a time.
C14_OneInitializationInFlight ==
    /\ Len(tasks) <= 1
    /\ refuaRendering <=> Len(tasks) = 1
    /\ \A r \in Records :
           /\ r.creates <= 1
           /\ r.mvsCalls <= 1
           /\ r.directCalls <= 1
           /\ r.pc = "frame" => r.creates = 0
           /\ r.pc \in {"frame", "create"} => (r.mvsCalls = 0 /\ r.directCalls = 0)
           /\ r.pc = "loadMVS" => r.directCalls = 0

\* the host has called again while the direct load of the only
\* initialization was pending
C14_Witness ==
    /\ hostCall.outcome = "skipped"
    /\ refuaRendering
    /\ Len(tasks) = 1
    /\ tasks[1].pc = "loadDirect"
    /\ tasks[1].creates = 1

\* a frame request or a call of the viewer capability is pending
CapabilityPending == \E i \in DOMAIN tasks : tasks[i].pc \in {"create", "loadMVS", "loadDirect"}

\* C15: when animation frames keep firing and every call of the viewer
\* capability settles, a container that is rendering is eventually not
\* rendering any more (it is rendered, or unrendered after a failure); and
\* while a call of the capability is pending the container is rendering,
\* the rendering flag being cleared by no step but one of the initialization
\* in flight: it stays rendering for as long as the call does not settle.
C15_RenderingEnds ==
    /\ refuaRendering ~> ~refuaRendering
    /\ [](CapabilityPending => refuaRendering)
    /\ [][(refuaRendering /\ ~refuaRendering') => tasks' # tasks]_vars

\* an initialization that had set the rendering flag has ended, the
\* structure loaded directly and the container rendered
C15_Witness ==
    /\ refuaRendered
    /\ ~refuaRendering
    /\ last.pc = "rendered"
    /\ last.recorded = "direct"
    /\ tasks = << >>

\* a step that makes the check of the gate: the call of the host that starts
\* an initialization, or the callback of a frame
GateCheck ==
    \/ hostCall' # hostCall /\ hostCall'.outcome = "started"
    \/ /\ hostCall' = hostCall
       /\ tasks' # tasks
       /\ Len(tasks) = 1
       /\ tasks[1].pc = "frame"

\* the number of the deferrals before the check a step makes
Deferrals == IF hostCall' # hostCall THEN 0 ELSE tasks[1].attempt + 1

\* C16: the check made after k deferrals, k in 0..20, that finds the viewer
\* element connected calls Viewer.create, once, requests no frame and
\* signals no timeout; the check that finds it disconnected requests the
\* next frame when k < 20 and signals the timeout when k = 20; and no other
\* step signals the timeout.
C16_GateProceedsWhenConnected ==
    [][/\ GateCheck
            => /\ Deferrals \in 0..20
               /\ IF isConnected
                  THEN \/ /\ Len(tasks') = 1
                          /\ tasks'[1].pc = "create"
                          /\ tasks'[1].creates = 1
                          /\ tasks'[1].attempt = Deferrals
                          /\ tasks'[1].frames = Deferrals
                       \/ /\ tasks' = << >>
                          /\ last'.pc = "renderError"
                          /\ last'.creates = 1
                  ELSE IF Deferrals < 20
                  THEN /\ Len(tasks') = 1
                       /\ tasks'[1].pc = "frame"
                       /\ tasks'[1].creates = 0
                       /\ tasks'[1].attempt = Deferrals
                       /\ tasks'[1].frames = Deferrals + 1
                  ELSE /\ tasks' = << >>
                       /\ last'.pc = "timeout"
                       /\ last'.creates = 0
       /\ (last'.pc = "timeout" /\ last' # last)
            => (GateCheck /\ ~isConnected /\ Deferrals = 20)]_vars

\* the viewer element was connected at the check after the 20th deferral
C16_Witness ==
    /\ Len(tasks) = 1
    /\ tasks[1].pc = "create"
    /\ tasks[1].attempt = 20
    /\ tasks[1].frames = 20
    /\ tasks[1].creates = 1

(***************************************************************************)
(* The sniff and the payload of a data URL                                 *)
(***************************************************************************)
\* the URL has a comma, and so a payload
HasPayload(url) == \E i \in 1..Len(url) : url[i] = ","

\* what lies between 'data:' and the first comma, and what follows the comma
MetaOf(url) == SubSeq(url, Len(DataScheme) + 1, IndexOf(url, ","))

PayloadOf(url) == SubSeq(url, IndexOf(url, ",") + 2, Len(url))

IsBase64Url(url) == Includes(ToLowerCase(MetaOf(url)), Base64Marker)

\* encoded with its padding completed to a multiple of four characters
Completed(encoded) ==
    encoded \o Repeat("=", CHOOSE pad \in 0..3 : (Len(encoded) + pad) % 4 = 0)

First(str, n) == SubSeq(str, 1, Min(n, Len(str)))

\* the whole payload, decoded
DecodedPayload(url) ==
    IF IsBase64Url(url) THEN Atob(Completed(StripSpace(PayloadOf(url))))
    ELSE PercentDecode(PayloadOf(url))

\* the sample of the payload, decoded: the first 512 bytes of what the first
\* 4096 base64 characters encode, or what the first 512 characters of a
\* percent-encoded payload encode
DecodedSample(url) ==
    IF IsBase64Url(url)
    THEN LET bytes == Atob(Completed(First(StripSpace(PayloadOf(url)), Base64ChunkLen)))
         IN  IF bytes.ok THEN Returned(First(bytes.s, SampleLen)) ELSE Threw
    ELSE PercentDecode(First(PayloadOf(url), SampleLen))

\* text is some whitespace followed by token
StartsAfterBlanks(text, token) ==
    \E k \in 0..(Len(text) - Len(token)) :
        /\ \A i \in 1..k : IsSpace(text[i])
        /\ SubSeq(text, k + 1, k + Len(token)) = token

\* decoding succeeded and gave text that starts, after leading whitespace,
\* with a sentinel
IsTextual(decoded) ==
    /\ decoded.ok
    /\ \/ StartsAfterBlanks(decoded.s, SentinelData)
       \/ StartsAfterBlanks(decoded.s, SentinelLoop)
       \/ StartsAfterBlanks(decoded.s, SentinelItem)

\* C17 as stated: for a payload of any length, the sniff returns true iff the
\* decoded payload, after leading whitespace, starts with 'data_', 'loop_'
\* or '_', and false for a payload that cannot be decoded.
C17_Original ==
    (sniffed.done /\ HasPayload(sniffUrl))
        => (sniffed.value <=> IsTextual(DecodedPayload(sniffUrl)))

\* C17: for every inline data URL, base64 or percent-encoded, the sniff
\* returns true iff the decoded sample of the payload (the first 512 bytes
\* encoded by the first 4096 base64 characters, or the decoding of the first
\* 512 percent-encoded characters), after leading whitespace is stripped,
\* starts with 'data_', 'loop_' or '_'; a sample that cannot be decoded
\* yields false, the sniff returning a boolean in every case.
C17_SniffsSample ==
    (sniffed.done /\ HasPayload(sniffUrl))
        => /\ sniffed.value \in BOOLEAN
           /\ sniffed.value <=> IsTextual(DecodedSample(sniffUrl))
           /\ ~DecodedSample(sniffUrl).ok => ~sniffed.value

\* a payload malformed past the sample has been sniffed as textual
C17_Witness ==
    /\ sniffed.done
    /\ sniffed.value
    /\ HasPayload(sniffUrl)
    /\ Len(PayloadOf(sniffUrl)) > SampleLen
    /\ ~DecodedPayload(sniffUrl).ok

(***************************************************************************)
(* Labels                                                                  *)
(***************************************************************************)
\* the places of the labelled components of the scene
Labelled == {i \in 1..Len(scene.structure) : scene.structure[i].label.present}

\* the tokens of a normalized group
TokensOf(group) == {group[k] : k \in 1..Len(group)}

\* C18: with a non-empty ligand name exactly one component is labelled, with
\* that name: the component of the first normalized ligand group when the
\* plan has ligand groups, otherwise the built-in 'ligand' component; with an
\* empty ligand name no component is labelled.
C18_OneLigandLabel ==
    SceneBuilt
      => IF ligandName(cfg) # << >>
         THEN /\ Labelled = {LigandAt + 1}
              /\ scene.structure[LigandAt + 1].label = Val(ligandName(cfg))
              /\ scene.structure[LigandAt + 1].type = "ball_and_stick"
              /\ IF Len(PlanGroups(LigandField)) > 0
                 THEN /\ scene.structure[LigandAt + 1].selector.kind = "list"
                      /\ ChainsOf(scene.structure[LigandAt + 1])
                           = TokensOf(PlanGroups(LigandField)[1])
                 ELSE scene.structure[LigandAt + 1].selector = BuiltinSelector("ligand")
         ELSE Labelled = {}

\* a named ligand with three ligand groups, after two protein groups and the
\* built-in nucleic component: only the fourth component is labelled
C18_Witness ==
    /\ SceneBuilt
    /\ ligandName(cfg) = <<"L", "I", "G">>
    /\ Len(PlanGroups(ProteinField)) = 2
    /\ Len(PlanGroups(NucleicField)) = 0
    /\ Len(PlanGroups(LigandField)) = 3
    /\ Labelled = {4}
    /\ scene.structure[4].label = Val(<<"L", "I", "G">>)
    /\ ~scene.structure[5].label.present

(***************************************************************************)
(* The composition of the scene                                            *)
(***************************************************************************)
\* the places of the components of the built-in selector of a role
Builtins(role) ==
    {i \in 1..Len(scene.structure) : scene.structure[i].selector = BuiltinSelector(role)}

\* the components of a role, issued after `at` others: the built-in one when
\* the role has no normalized groups, otherwise one for each group, in order
RoleComponents(key, at, role, type) ==
    IF Len(PlanGroups(key)) = 0
    THEN /\ Builtins(role) = {at + 1}
         /\ scene.structure[at + 1].type = type
    ELSE /\ Builtins(role) = {}
         /\ \A n \in 0..(Len(PlanGroups(key)) - 1) :
                /\ GroupComponent(at, n).selector.kind = "list"
                /\ ChainsOf(GroupComponent(at, n)) = TokensOf(PlanGroups(key)[n + 1])
                /\ GroupComponent(at, n).type = type

\* C19: the scene holds, in this order, the components of the protein, the
\* nucleic, the ligand and the ion role (for each, the built-in component
\* exactly when the role has no normalized groups, otherwise one component
\* for each group), one built-in 'branched' component whatever the plan
\* says, and one component for each explicit group of the role other, which
\* has no built-in component; and nothing else.
C19_SceneComposition ==
    SceneBuilt
      => /\ RoleComponents(ProteinField, 0, "protein", "cartoon")
         /\ RoleComponents(NucleicField, NucleicAt, "nucleic", "cartoon")
         /\ RoleComponents(LigandField, LigandAt, "ligand", "ball_and_stick")
         /\ RoleComponents(IonField, IonAt, "ion", "ball_and_stick")
         /\ Builtins("branched") = {BranchedAt + 1}
         /\ scene.structure[BranchedAt + 1].color = "#84cc16"
         /\ Builtins("other") = {}
         /\ \A n \in 0..(Len(PlanGroups(OtherField)) - 1) :
                /\ GroupComponent(OtherAt, n).selector.kind = "list"
                /\ ChainsOf(GroupComponent(OtherAt, n)) = TokensOf(PlanGroups(OtherField)[n + 1])
         /\ Len(scene.structure) = OtherAt + Len(PlanGroups(OtherField))

\* two protein groups, the built-in nucleic and ligand components, two ion
\* groups, the branched component and two other groups: nine components
C19_Witness ==
    /\ SceneBuilt
    /\ Len(PlanGroups(ProteinField)) = 2
    /\ Len(PlanGroups(IonField)) = 2
    /\ Len(PlanGroups(OtherField)) = 2
    /\ Len(scene.structure) = 9
    /\ scene.structure[2].selector.kind = "list"
    /\ scene.structure[3].selector = BuiltinSelector("nucleic")
    /\ scene.structure[4].selector = BuiltinSelector("ligand")
    /\ scene.structure[6].selector.kind = "list"
    /\ scene.structure[7].selector = BuiltinSelector("branched")
    /\ scene.structure[9].selector.kind = "list"

(***************************************************************************)
(* One representation for a chain                                          *)
(***************************************************************************)
\* the places of the components that select chains by a chain selector
ChainComponents ==
    {i \in 1..Len(scene.structure) : scene.structure[i].selector.kind = "list"}

\* C20 as stated: in the scene built from any colour plan no chain token is
\* selected by more than one chain component, whether the token is repeated
\* inside the groups of one role or listed under two roles of the plan.
C20_Original ==
    SceneBuilt
      => \A i \in ChainComponents : \A j \in ChainComponents :
             i # j => ChainsOf(scene.structure[i]) \cap ChainsOf(scene.structure[j]) = {}

(***************************************************************************)
(* The container once rendered                                             *)
(***************************************************************************)
\* the scene-description load of the initialization of record r succeeded
MvsSucceeded(r) == r.mvsCalls = 1 /\ r.mvsThrewAt = "none"

\* C21: whenever the rendered flag is set, the rendering flag is absent, the
\* loading indicator, if there is one, is hidden, the loaded format is the
\* effective format, and the loaded path is 'mvs' when the scene-description
\* load of the initialization that rendered the container succeeded, which
\* then made no direct load, and 'direct' otherwise, after one direct load.
C21_RenderedState ==
    refuaRendered
      => /\ ~refuaRendering
         /\ cfg.hasLoadingEl => loadingDisplay = "none"
         /\ last.pc = "rendered"
         /\ refuaLoadedFormat = Val(EffectiveFormat)
         /\ IF MvsSucceeded(last)
            THEN refuaLoadedPath = "mvs" /\ last.directCalls = 0
            ELSE refuaLoadedPath = "direct" /\ last.directCalls = 1

\* a source declared 'BCIF' whose inline payload is text, rendered as
\* 'mmcif' through the direct path after loadMVS rejected, the indicator hidden
C21_Witness ==
    /\ refuaRendered
    /\ cfg.hasLoadingEl
    /\ loadingDisplay = "none"
    /\ cfg.format = Val(<<"B", "C", "I", "F">>)
    /\ refuaLoadedFormat = Val(FormatMmcif)
    /\ last.mvsThrewAt = "loadMVS"
    /\ refuaLoadedPath = "direct"

(***************************************************************************)
(* The loaded format and the loaded path after a failure                   *)
(***************************************************************************)
\* C22 as stated: whenever the container is neither rendering nor rendered,
\* the loaded path and the loaded format are absent.
C22_Original ==
    (~refuaRendering /\ ~refuaRendered)
        => (refuaLoadedPath = "absent" /\ refuaLoadedFormat = NoAttr)

\* the initialization of record r failed after its structure load completed
FailedAfterLoad(r) == r.pc = "loadError" /\ r.cause = "afterLoad"

\* C22, amended: the loaded path and the loaded format are written only by
\* a step in which a structure load completes, which writes the effective
\* format and the path of that load, so that a container neither rendering
\* nor rendered has both absent or both present, and a failure that ends an
\* initialization before its load completed leaves them as they were; a
\* failure raised after the load completed, as an exception of the camera
\* reset is, leaves the format and the path of that load on the container.
C22_TraceOfCompletedLoad ==
    /\ []((~refuaRendering /\ ~refuaRendered)
            => /\ (refuaLoadedPath = "absent") <=> (refuaLoadedFormat = NoAttr)
               /\ FailedAfterLoad(last)
                    => /\ last.recorded \in {"mvs", "direct"}
                       /\ refuaLoadedPath = last.recorded
                       /\ refuaLoadedFormat = Val(EffectiveFormat))
    /\ [][(refuaLoadedPath' # refuaLoadedPath \/ refuaLoadedFormat' # refuaLoadedFormat)
            => /\ last'.pc = "rendered" \/ FailedAfterLoad(last')
               /\ last'.recorded \in {"mvs", "direct"}
               /\ refuaLoadedPath' = last'.recorded
               /\ refuaLoadedFormat' = Val(EffectiveFormat)]_vars

\* the camera reset threw after the scene-description load completed: the
\* container is neither rendering nor rendered and carries 'mvs' and a format
C22_Witness ==
    /\ ~refuaRendering
    /\ ~refuaRendered
    /\ FailedAfterLoad(last)
    /\ last.recorded = "mvs"
    /\ refuaLoadedPath = "mvs"
    /\ refuaLoadedFormat.present

(***************************************************************************)
(* The inline classification and the sniff                                 *)
(***************************************************************************)
\* the source is classified as inline data, is declared 'bcif', and the
\* payload of the data URL in it is textual
InlineTextDeclaredBinary ==
    /\ isInlineDataUrl(cfg)
    /\ ToLowerCase(DeclaredFormat) = FormatBcif
    /\ HasPayload(Trim(cfg.url.s))
    /\ IsTextual(DecodedSample(Trim(cfg.url.s)))

\* C23 as stated: whenever the source is classified as inline data, leading
\* whitespace before 'data:' included, the sniff inspects the payload, so
\* that a source declared 'bcif' with a textual payload is loaded as 'mmcif',
\* and not as binary, by either path.
C23_Original ==
    InlineTextDeclaredBinary
      => \A r \in Records :
             /\ r.mvsFormat.present => r.mvsFormat = Val(FormatMmcif)
             /\ r.directCalls > 0
                  => (r.directFormat = Val(FormatMmcif) /\ ~r.directBinary)

(***************************************************************************)
(* The selectors of normalized groups                                      *)
(***************************************************************************)
\* the two alternatives of each token of a normalized group, in order
AlternativesOf(group) ==
    [k \in 1..(2 * Len(group)) |->
        IF k % 2 = 1 THEN [scheme |-> "label_asym_id", token |-> group[(k + 1) \div 2]]
        ELSE [scheme |-> "auth_asym_id", token |-> group[k \div 2]]]

\* the components of the normalized groups of a role, issued after `at`
\* others, select by a list of two alternatives for each token of the group
ListsOfPairs(key, at) ==
    \A n \in 0..(Len(PlanGroups(key)) - 1) :
        /\ GroupComponent(at, n).selector.kind = "list"
        /\ Len(GroupComponent(at, n).selector.alternatives) = 2 * Len(PlanGroups(key)[n + 1])
        /\ GroupComponent(at, n).selector.alternatives = AlternativesOf(PlanGroups(key)[n + 1])

\* C24: the selector makeChainSelector returns for a normalized group is a
\* list of exactly twice as many alternatives as the group has tokens, never
\* null and never a single selector object, so that addChainRepresentation
\* issues exactly one component for each normalized group of the plan.
C24_TwoAlternativesPerToken ==
    SceneBuilt
      => /\ ListsOfPairs(ProteinField, 0)
         /\ ListsOfPairs(NucleicField, NucleicAt)
         /\ ListsOfPairs(LigandField, LigandAt)
         /\ ListsOfPairs(IonField, IonAt)
         /\ ListsOfPairs(OtherField, OtherAt)
         /\ \A i \in 1..Len(scene.structure) :
                scene.structure[i].selector.kind \notin {"null", "single"}
         /\ Cardinality(ChainComponents)
              = Len(PlanGroups(ProteinField)) + Len(PlanGroups(NucleicField))
                  + Len(PlanGroups(LigandField)) + Len(PlanGroups(IonField))
                  + Len(PlanGroups(OtherField))

\* protein groups normalized to ["A", "B"] and ["C"]: a component of four
\* alternatives and one of two
C24_Witness ==
    /\ SceneBuilt
    /\ PlanGroups(ProteinField) = <<(<<(<<"A">>), (<<"B">>)>>), (<<(<<"C">>)>>)>>
    /\ Len(scene.structure[1].selector.alternatives) = 4
    /\ Len(scene.structure[2].selector.alternatives) = 2
    /\ scene.structure[2].selector.kind = "list"

====
